---- MODULE Spec2Model ----
(***************************************************************************)
(* Model of argh's assembling module (src/src/argh/assembling.py):         *)
(* signature inference, reconciliation of @arg declarations with the       *)
(* inferred arguments, type/action guessing, registration on an argparse   *)
(* parser and composition of command trees.                                *)
(*                                                                         *)
(* Strings that the code inspects character by character (argument names,  *)
(* option strings, function names) are sequences of one-character strings. *)
(* Opaque Python values (defaults, help texts, types, actions) are tokens; *)
(* None is the token "None".  A dict is a function whose domain is its key *)
(* set.                                                                    *)
(***************************************************************************)
EXTENDS Integers, Sequences, FiniteSets, TLC

VARIABLES parsers, attr_args, last, calls

vars == <<parsers, attr_args, last, calls>>

----------------------------------------------------------------------------
(* Strings as character sequences                                          *)

None == "None"

NoName == <<>>

dash == "-"

underscore == "_"

\* str.replace(old, new) for one-character old and new
Replace(s, old, new) == [i \in DOMAIN s |-> IF s[i] = old THEN new ELSE s[i]]

\* str.startswith(c) for a one-character prefix
StartsWith(s, c) == Len(s) > 0 /\ s[1] = c

RECURSIVE LStrip(_, _)
\* str.lstrip(c)
LStrip(s, c) == IF StartsWith(s, c) THEN LStrip(Tail(s), c) ELSE s

RECURSIVE Join(_, _)
\* sep.join(parts)
Join(parts, sep) ==
    IF Len(parts) = 0 THEN <<>>
    ELSE IF Len(parts) = 1 THEN parts[1]
    ELSE parts[1] \o sep \o Join(Tail(parts), sep)

Range(xs) == {xs[i] : i \in DOMAIN xs}

\* dict(a, **b) and a.update(**b): the keys of b override those of a
Update(a, b) ==
    [k \in (DOMAIN a) \cup (DOMAIN b) |-> IF k \in DOMAIN b THEN b[k] ELSE a[k]]

\* d.get(k), None when the key is absent
Get(d, k) == IF k \in DOMAIN d THEN d[k] ELSE None

\* the truth value of a str or None ("if title:", "if function.__doc__"):
\* None and the empty string are false
Truthy(v) == v # None /\ v # ""

\* the dict d without key k (d.pop(k) on a copy)
Without(d, k) == [x \in (DOMAIN d) \ {k} |-> d[x]]

----------------------------------------------------------------------------
(* Python values as tokens                                                 *)

BoolValues == {"True", "False"}

IntValues == {"0", "1", "3"}

\* isinstance(value, bool)
IsBool(v) == v \in BoolValues

\* type(value)
TypeOf(v) ==
    IF v \in BoolValues THEN "bool"
    ELSE IF v \in IntValues THEN "int"
    ELSE IF v = None THEN "NoneType"
    ELSE "str"

EmptyDict == [k \in {} |-> None]

Min(a, b) == IF a < b THEN a ELSE b

----------------------------------------------------------------------------
(* _get_args_from_signature                                                *)
(*                                                                         *)
(* A callable f is the record of what get_arg_spec and getattr read from   *)
(* it: name (__name__), doc (__doc__), args, defaults, kwonlyargs,         *)
(* kwonlydefaults, varargs, varkw, annotations (the str-valued ones),      *)
(* expects_obj (ATTR_EXPECTS_NAMESPACE_OBJECT), declared (ATTR_ARGS as     *)
(* attached when the function was defined), cmd_name (ATTR_NAME) and       *)
(* aliases (ATTR_ALIASES).                                                 *)

\* defaults = dict(zip(reversed(args), reversed(defaults))), then
\* defaults.update(kwonlydefaults)
SigDefaults(f) ==
    LET n == Min(Len(f.args), Len(f.defaults))
        named == {f.args[j] : j \in (Len(f.args) - n + 1)..Len(f.args)}
        idx(a) == CHOOSE j \in DOMAIN f.args : f.args[j] = a
        positional == [a \in named |-> f.defaults[Len(f.defaults) - Len(f.args) + idx(a)]]
    IN  Update(positional, f.kwonlydefaults)

\* the mutant of ConflictingOpts: no short form is ever found conflicting
ConflictingOptsNever(f) == {}

\* chars, char_counts, conflicting_opts: the first letters borne by more
\* than one of spec.args + kwonly
ConflictingOpts(f) ==
    LET names == f.args \o f.kwonlyargs
    IN  {c \in {names[i][1] : i \in DOMAIN names} :
            Cardinality({i \in DOMAIN names : names[i][1] = c}) > 1}

\* flags = tuple(x.replace("_", "-") if x.startswith("-") else x for x in flags)
NormalizeFlags(flags) ==
    [i \in DOMAIN flags |->
        IF StartsWith(flags[i], dash) THEN Replace(flags[i], underscore, dash)
        ELSE flags[i]]

\* akwargs before line 91: the help taken from a str annotation
Annotated(f, name) ==
    IF name \in DOMAIN f.annotations THEN [help |-> f.annotations[name]]
    ELSE EmptyDict

\* the mutant of InferFlag: a keyword-only parameter without default is
\* not marked required
InferFlagOptional(f, name, defaults, akwargs) ==
    Update(
        [option_strings |->
            NormalizeFlags(
                IF name[1] \in ConflictingOpts(f) THEN <<<<dash, dash>> \o name>>
                ELSE << <<dash, name[1]>>, <<dash, dash>> \o name >>)],
        Update(akwargs,
               IF name \in DOMAIN defaults THEN [default |-> defaults[name]]
               ELSE EmptyDict))

\* lines 91-108 for a parameter with a default or keyword-only
InferFlag(f, name, defaults, akwargs) ==
    Update(
        [option_strings |->
            NormalizeFlags(
                IF name[1] \in ConflictingOpts(f) THEN <<<<dash, dash>> \o name>>
                ELSE << <<dash, name[1]>>, <<dash, dash>> \o name >>)],
        Update(akwargs,
               IF name \in DOMAIN defaults THEN [default |-> defaults[name]]
               ELSE [required |-> TRUE]))

\* lines 101-108 for a parameter without default that is not keyword-only
InferPositional(name, akwargs) ==
    Update([option_strings |-> NormalizeFlags(<<name>>)], akwargs)

\* lines 91-108, defaults being the dict of lines 59-60
InferWith(f, name, defaults) ==
    IF name \in DOMAIN defaults \/ name \in Range(f.kwonlyargs)
    THEN InferFlag(f, name, defaults, Annotated(f, name))
    ELSE InferPositional(name, Annotated(f, name))

\* one iteration of the loop over spec.args + kwonly: the dict yielded for name
InferArg(f, name) == InferWith(f, name, SigDefaults(f))

\* the dicts yielded by the loop over names = spec.args + kwonly
InferNamed(f, names) == [i \in DOMAIN names |-> InferArg(f, names[i])]

\* the mutant of GetArgsFromSignature: the spec of *varargs is yielded
\* before those of the named parameters
GetArgsFromSignatureVarargsFirst(f) ==
    IF f.expects_obj THEN <<>>
    ELSE (IF f.varargs # NoName
          THEN <<[option_strings |-> <<f.varargs>>, nargs |-> "*"]>>
          ELSE <<>>)
             \o InferNamed(f, f.args \o f.kwonlyargs)

\* list(_get_args_from_signature(function))
GetArgsFromSignature(f) ==
    IF f.expects_obj THEN <<>>
    ELSE InferNamed(f, f.args \o f.kwonlyargs)
             \o (IF f.varargs # NoName
                 THEN <<[option_strings |-> <<f.varargs>>, nargs |-> "*"]>>
                 ELSE <<>>)

----------------------------------------------------------------------------
(* _guess                                                                  *)

\* the mutant of TYPE_AWARE_ACTIONS: "count" takes a type too
TypeAwareActionsWithCount == {"store", "append", "count"}

\* TYPE_AWARE_ACTIONS = "store", "append"
TYPE_AWARE_ACTIONS == {"store", "append"}

\* the mutant of GuessFromChoices: the "type" not in ... test is dropped
GuessFromChoicesAlways(kwargs, guessed) ==
    IF "choices" \in DOMAIN kwargs /\ Len(kwargs.choices) > 0
    THEN Update(guessed, [type |-> TypeOf(kwargs.choices[1])])
    ELSE guessed

\* the mutant of GuessFromDefault: the action of a boolean default is always
\* guessed, a supplied action notwithstanding
GuessFromDefaultAlways(kwargs) ==
    LET value == Get(kwargs, "default")
    IN  IF value # None /\ IsBool(value)
        THEN [action |-> IF value = "True" THEN "store_false" ELSE "store_true"]
        ELSE EmptyDict

\* the mutant of GuessFromDefault: the two toggles are swapped
GuessFromDefaultSwapped(kwargs) ==
    LET value == Get(kwargs, "default")
    IN  IF value # None /\ IsBool(value) /\ Get(kwargs, "action") = None
        THEN [action |-> IF value = "True" THEN "store_true" ELSE "store_false"]
        ELSE EmptyDict

\* "guess type/action from default value": the dict guessed after the first if
GuessFromDefault(kwargs) ==
    LET value == Get(kwargs, "default")
    IN  IF value = None THEN EmptyDict
        ELSE IF IsBool(value)
        THEN IF Get(kwargs, "action") = None
             THEN [action |-> IF value = "True" THEN "store_false" ELSE "store_true"]
             ELSE EmptyDict
        ELSE IF Get(kwargs, "type") = None
        THEN IF (IF "action" \in DOMAIN kwargs THEN kwargs.action ELSE "store")
                    \in TYPE_AWARE_ACTIONS
             THEN [type |-> TypeOf(value)]
             ELSE EmptyDict
        ELSE EmptyDict

\* "guess type from choices (first item)"
GuessFromChoices(kwargs, guessed) ==
    IF /\ "choices" \in DOMAIN kwargs
       /\ Len(kwargs.choices) > 0
       /\ "type" \notin (DOMAIN guessed) \cup (DOMAIN kwargs)
    THEN Update(guessed, [type |-> TypeOf(kwargs.choices[1])])
    ELSE guessed

\* the mutant of Guess: the rules are one else-chain, the choices being
\* looked at only when the default gave nothing
GuessElseChain(kwargs) ==
    Update(kwargs,
           IF GuessFromDefault(kwargs) # EmptyDict THEN GuessFromDefault(kwargs)
           ELSE GuessFromChoices(kwargs, EmptyDict))

\* _guess(kwargs): dict(kwargs, **guessed)
Guess(kwargs) == Update(kwargs, GuessFromChoices(kwargs, GuessFromDefault(kwargs)))

----------------------------------------------------------------------------
(* Errors.  An error is its exception type, the message template of the    *)
(* raise statement and the values formatted into it.                       *)

NoError == [type |-> "None", template |-> "", params |-> EmptyDict]

Raised(e) == e.type # "None"

ConflictTemplate ==
    "{func}: argument \"{dest}\" declared as {kind_i} (in function signature) and {kind_d} (via decorator)"

MismatchTemplate == "{func}: argument {flags} does not fit function signature: {sig}"

CannotAddTemplate == "{func}: cannot add arg {args}: {msg}"

\* the backquote, by its code point: a string cannot hold the character here
backquote == 96

\* the message of the ValueError of line 478; each {bq} stands for one
\* backquote of the message, given as the parameter bq of the error
GroupKwargsTemplate ==
    "{bq}group_kwargs{bq} only makes sense with {bq}group_name{bq}."

\* kinds = {True: "positional", False: "optional"}
Kind(positional) == IF positional THEN "positional" ELSE "optional"

commaSpace == <<",", " ">>

slash == <<"/">>

----------------------------------------------------------------------------
(* _is_positional, _get_parser_param_kwargs, _get_dest                     *)

\* _is_positional(args): the first name does not start with a prefix
\* character (used where the names are known to be non-empty)
IsPositional(args) == ~StartsWith(args[1], dash)

\* _is_positional raises for no name or an empty first name
ExpectedTemplate == "Expected at least one argument"

\* argparse's _get_positional_kwargs(dest, **kwargs) binding its arguments
MultipleDestTemplate ==
    "_ActionsContainer._get_positional_kwargs() got multiple values for argument 'dest'"

TooManyNamesTemplate ==
    "_ActionsContainer._get_positional_kwargs() takes 2 positional arguments but {n} were given"

MissingDestTemplate ==
    "_ActionsContainer._get_positional_kwargs() missing 1 required positional argument: 'dest'"

\* argparse's _get_positional_kwargs: "make sure required is not specified"
RequiredTemplate == "'required' is an invalid argument for positionals"

\* argparse's _get_optional_kwargs
InvalidOptionTemplate ==
    "invalid option string %(option)r: must start with a character %(prefix_chars)r"

DestRequiredTemplate == "dest= is required for options like %r"

\* parser._get_positional_kwargs(*args, **kwargs): the error it raises, if
\* any; kwargs may hold dest, which the first name then collides with
PositionalKwargsError(args, kwargs) ==
    IF Len(args) > 0 /\ "dest" \in DOMAIN kwargs
    THEN [type |-> "TypeError", template |-> MultipleDestTemplate, params |-> EmptyDict]
    ELSE IF Len(args) = 0 /\ "dest" \notin DOMAIN kwargs
    THEN [type |-> "TypeError", template |-> MissingDestTemplate, params |-> EmptyDict]
    ELSE IF Len(args) > 1
    THEN [type |-> "TypeError", template |-> TooManyNamesTemplate,
          params |-> [n |-> Len(args) + 1]]
    ELSE IF "required" \in DOMAIN kwargs
    THEN [type |-> "TypeError", template |-> RequiredTemplate, params |-> EmptyDict]
    ELSE NoError

\* the option strings of args that start with two prefix characters
LongOptionStrings(args) ==
    LET isLong(x) == Len(x) > 1 /\ x[2] = dash IN SelectSeq(args, isLong)

\* argparse's _get_optional_kwargs without dest: the first long option
\* string, or the first option string when none is long
DestOptionString(args) ==
    IF Len(LongOptionStrings(args)) > 0 THEN LongOptionStrings(args)[1] ELSE args[1]

\* argparse's _get_optional_kwargs: dest popped from kwargs, or, when it is
\* missing or None, the chosen option string stripped of its prefix, with
\* hyphens replaced
OptionalDest(args, kwargs) ==
    IF "dest" \in DOMAIN kwargs /\ kwargs.dest # None THEN kwargs.dest
    ELSE Replace(LStrip(DestOptionString(args), dash), dash, underscore)

\* "".__getitem__(0): option_string[0] and args[0][0] on an empty name
IndexErrorTemplate == "string index out of range"

\* the first of args that does not start with a prefix character
\* (option_string[0] in self.prefix_chars fails, or raises), 0 if none
FirstUnprefixed(args) ==
    IF \A i \in DOMAIN args : StartsWith(args[i], dash) THEN 0
    ELSE CHOOSE i \in DOMAIN args :
            /\ ~StartsWith(args[i], dash)
            /\ \A j \in 1..(i - 1) : StartsWith(args[j], dash)

\* parser._get_optional_kwargs(*args, **kwargs): the error it raises, if
\* any.  The loop over the option strings raises at the first one that is
\* empty (IndexError) or starts with no prefix character (ValueError)
OptionalKwargsError(args, kwargs) ==
    IF FirstUnprefixed(args) # 0 /\ args[FirstUnprefixed(args)] = <<>>
    THEN [type |-> "IndexError", template |-> IndexErrorTemplate,
          params |-> EmptyDict]
    ELSE IF FirstUnprefixed(args) # 0
    THEN [type |-> "ValueError", template |-> InvalidOptionTemplate,
          params |-> [option |-> args[FirstUnprefixed(args)],
                      prefix_chars |-> "-"]]
    ELSE IF Get(kwargs, "dest") = None /\ LStrip(DestOptionString(args), dash) = <<>>
    THEN [type |-> "ValueError", template |-> DestRequiredTemplate,
          params |-> [option_string |-> args[Len(args)]]]
    ELSE NoError

\* _get_parser_param_kwargs(parser, argspec): the error it raises, if any:
\* that of _is_positional, or that of get_kwargs(*args, **argspec), where
\* argspec holds option_strings and what else the spec has
DestError(argspec) ==
    IF Len(argspec.option_strings) = 0 \/ argspec.option_strings[1] = <<>>
    THEN [type |-> "ValueError", template |-> ExpectedTemplate, params |-> EmptyDict]
    ELSE IF IsPositional(argspec.option_strings)
    THEN PositionalKwargsError(argspec.option_strings, argspec)
    ELSE OptionalKwargsError(argspec.option_strings, argspec)

\* the mutant of GetDest: the hyphens of the name are not normalised
GetDestRaw(argspec) ==
    IF IsPositional(argspec.option_strings) THEN argspec.option_strings[1]
    ELSE LStrip(argspec.option_strings[1], dash)

\* _get_parser_param_kwargs(parser, argspec)["dest"] when nothing is
\* raised: kwargs["dest"].replace("-", "_") of what the parser computes
GetDest(argspec) ==
    IF IsPositional(argspec.option_strings)
    THEN Replace(argspec.option_strings[1], dash, underscore)
    ELSE Replace(OptionalDest(argspec.option_strings, argspec), dash, underscore)

----------------------------------------------------------------------------
(* set_default_command: reconciliation of declared and inferred arguments  *)
(*                                                                         *)
(* dests is the OrderedDict: a sequence of [dest, ref] in insertion order. *)
(* A ref names the dict object an entry holds: the i-th dict yielded by    *)
(* _get_args_from_signature (store inferred) or the i-th dict of the       *)
(* ATTR_ARGS list of the function (store declared); updating an entry      *)
(* updates the object it refers to.                                        *)

Deref(st, ref) ==
    IF ref.store = "inferred" THEN st.inferred[ref.idx] ELSE st.declared[ref.idx]

\* the mutant of KnownDests: no dest is ever found in dests
KnownDestsNone(st) == {}

\* the keys of dests ("if dest in dests")
KnownDests(st) == {st.dests[k].dest : k \in DOMAIN st.dests}

\* dests.values(), as the dicts the entries refer to
DestValues(st) == [k \in DOMAIN st.dests |-> Deref(st, st.dests[k].ref)]

\* the first argspec of inferred_args for which
\* _get_parser_param_kwargs raises at line 220, 0 if there is none
FirstRefusedInferred(inferred) ==
    IF \A i \in DOMAIN inferred : ~Raised(DestError(inferred[i])) THEN 0
    ELSE CHOOSE i \in DOMAIN inferred :
            /\ Raised(DestError(inferred[i]))
            /\ \A j \in 1..(i - 1) : ~Raised(DestError(inferred[j]))

\* what the loop of lines 219-221 raises, if anything: what line 220
\* raises for the first argspec the parser refuses
InferredDestError(inferred) ==
    IF FirstRefusedInferred(inferred) = 0 THEN NoError
    ELSE DestError(inferred[FirstRefusedInferred(inferred)])

\* the loop "for argspec in inferred_args: dests[dest] = argspec", left at
\* the first argspec for which line 220 raises; a later argspec with the
\* same dest replaces the value and keeps the position
RECURSIVE IndexInferred(_, _, _)
IndexInferred(inferred, dests, i) ==
    IF i > Len(inferred) \/ Raised(DestError(inferred[i])) THEN dests
    ELSE LET dest == GetDest(inferred[i])
             ref == [store |-> "inferred", idx |-> i]
             seen == {k \in DOMAIN dests : dests[k].dest = dest}
         IN  IndexInferred(inferred,
                 IF seen = {} THEN Append(dests, [dest |-> dest, ref |-> ref])
                 ELSE [k \in DOMAIN dests |->
                          IF k \in seen THEN [dest |-> dest, ref |-> ref] ELSE dests[k]],
                 i + 1)

\* the mutant of MergeDeclared: the inferred fields win over the declared ones
MergeDeclaredInferredWins(current, declared_kw) == Update(declared_kw, current)

\* dests[dest].update(**declared_kw)
MergeDeclared(current, declared_kw) == Update(current, declared_kw)

\* the mutant of MergeInto: the merged entry is deleted and inserted again,
\* which moves it to the end of dests
MergeIntoMovesLast(st, k, declared_kw) ==
    LET ref == st.dests[k].ref
        merged == MergeDeclared(Deref(st, ref), declared_kw)
        others == [j \in 1..(Len(st.dests) - 1) |->
                      IF j < k THEN st.dests[j] ELSE st.dests[j + 1]]
        moved == [st EXCEPT !.dests = Append(others, st.dests[k])]
    IN  IF ref.store = "inferred"
        THEN [moved EXCEPT !.inferred[ref.idx] = merged]
        ELSE [moved EXCEPT !.declared[ref.idx] = merged]

\* dests[dest].update(**declared_kw) on the k-th entry of dests: the dict
\* the entry refers to is updated in place
MergeInto(st, k, declared_kw) ==
    LET ref == st.dests[k].ref
        merged == MergeDeclared(Deref(st, ref), declared_kw)
    IN  IF ref.store = "inferred"
        THEN [st EXCEPT !.inferred[ref.idx] = merged]
        ELSE [st EXCEPT !.declared[ref.idx] = merged]

\* the mutant of AcceptsUnknown: a declaration that fits no parameter is
\* always adopted
AcceptsUnknownAlways(f) == TRUE

\* varkw = getattr(spec, "varkw", ...); if varkw:
AcceptsUnknown(f) == f.varkw # NoName

\* the mutant of ClassificationConflict: the check is dropped
ClassificationConflictNever(declared_kw, current) == FALSE

\* decl_positional != infr_positional
ClassificationConflict(declared_kw, current) ==
    IsPositional(declared_kw.option_strings) # IsPositional(current.option_strings)

\* the raise of lines 240-248
ConflictError(f, dest, current, declared_kw) ==
    [type |-> "AssemblingError",
     template |-> ConflictTemplate,
     params |-> [func |-> f.name, dest |-> dest,
                 kind_i |-> Kind(IsPositional(current.option_strings)),
                 kind_d |-> Kind(IsPositional(declared_kw.option_strings))]]

\* the mutant of JoinNames: only the first name of each argument is shown
JoinNamesFirst(xs) == [j \in DOMAIN xs |-> xs[j].option_strings[1]]

\* "/".join(x) for x in xs
JoinNames(xs) == [j \in DOMAIN xs |-> Join(xs[j].option_strings, slash)]

\* the raise of lines 262-270
MismatchError(f, declared_kw, xs) ==
    [type |-> "AssemblingError",
     template |-> MismatchTemplate,
     params |-> [func |-> f.name,
                 flags |-> Join(declared_kw.option_strings, commaSpace),
                 sig |-> Join(JoinNames(xs), commaSpace)]]

\* "if dest in dests" holds and dest is the k-th key: lines 227-252
ReconcileKnown(f, st, i, declared_kw, dest, k) ==
    IF ClassificationConflict(declared_kw, Deref(st, st.dests[k].ref))
    THEN [st EXCEPT
            !.at = i,
            !.error = ConflictError(f, dest, Deref(st, st.dests[k].ref), declared_kw)]
    ELSE MergeInto(st, k, declared_kw)

\* "if dest in dests" fails: lines 254-270
ReconcileUnknown(f, st, i, declared_kw, dest) ==
    IF AcceptsUnknown(f)
    THEN [st EXCEPT
            !.dests = Append(@, [dest |-> dest,
                                 ref |-> [store |-> "declared", idx |-> i]])]
    ELSE [st EXCEPT
            !.at = i,
            !.error = MismatchError(f, declared_kw, DestValues(st))]

\* the body of "for declared_kw in declared_args" for the i-th declaration,
\* declared_kw, whose destination key is dest
ReconcileDeclared(f, st, i, declared_kw, dest) ==
    IF dest \in KnownDests(st)
    THEN ReconcileKnown(f, st, i, declared_kw, dest,
                        CHOOSE k \in DOMAIN st.dests : st.dests[k].dest = dest)
    ELSE ReconcileUnknown(f, st, i, declared_kw, dest)

\* the i-th iteration of "for declared_kw in declared_args": line 225
\* raises what _get_dest raises, as it is
ReconcileOne(f, st, i) ==
    IF Raised(DestError(st.declared[i]))
    THEN [st EXCEPT !.at = i, !.error = DestError(st.declared[i])]
    ELSE ReconcileDeclared(f, st, i, st.declared[i], GetDest(st.declared[i]))

RECURSIVE ReconcileFrom(_, _, _)
\* the loop over declared_args, left at the first raise and not entered
\* when the loop over inferred_args has raised
ReconcileFrom(f, st, i) ==
    IF i > Len(st.declared) \/ Raised(st.error) THEN st
    ELSE ReconcileFrom(f, ReconcileOne(f, st, i), i + 1)

\* the mutant of NeedsReconciling: reconciliation runs whenever there are
\* declarations
NeedsReconcilingDeclared(inferred_args, declared_args) == Len(declared_args) > 0

\* if inferred_args and declared_args:
NeedsReconciling(inferred_args, declared_args) ==
    Len(inferred_args) > 0 /\ Len(declared_args) > 0

\* what the loop leaves: the ATTR_ARGS dicts, the error raised and by which
\* declaration, and inferred_args = dests.values()
Reconciled(st) ==
    [declared |-> st.declared, error |-> st.error, at |-> st.at,
     command_args |-> IF Raised(st.error) THEN <<>> ELSE DestValues(st)]

\* Lines 203-275: the state after reconciliation; command_args is
\* "inferred_args or declared_args" (empty when an error was raised)
Reconcile(f, inferred_args, declared_args) ==
    IF NeedsReconciling(inferred_args, declared_args)
    THEN Reconciled(ReconcileFrom(f,
            [dests |-> IndexInferred(inferred_args, <<>>, 1),
             inferred |-> inferred_args,
             declared |-> declared_args,
             error |-> InferredDestError(inferred_args),
             at |-> 0], 1))
    ELSE [declared |-> declared_args, error |-> NoError, at |-> 0,
          command_args |-> IF Len(inferred_args) > 0 THEN inferred_args
                           ELSE declared_args]

----------------------------------------------------------------------------
(* Parsers.  A parser node is [add_help, description, formatter_class,     *)
(* actions, function, has_subparsers, subparsers_kwargs, commands]:        *)
(* actions are the arguments registered so far, in order; function is      *)
(* <<f>> once set_defaults has bound f and <<>> before; has_subparsers     *)
(* tells whether the node has a subparsers action, made with               *)
(* subparsers_kwargs; commands are the entries [name, aliases, help, path] *)
(* attached to that action, path naming the parser node of the command.    *)
(* The variable parsers maps each path to its node, the root being <<>>.   *)

\* DEFAULT_ARGUMENT_TEMPLATE of argh.constants
DEFAULT_ARGUMENT_TEMPLATE == "%(default)s"

helpFlag == <<dash, "h">>

longHelpFlag == <<dash, dash, "h", "e", "l", "p">>

\* the option strings a parser already answers to: those of its help
\* action and of the optional arguments registered (a positional argument
\* has no option string)
OptionStringsOf(node) ==
    (IF node.add_help THEN {helpFlag, longHelpFlag} ELSE {})
        \cup UNION {{x \in Range(node.actions[i].names) : StartsWith(x, dash)} :
                       i \in DOMAIN node.actions}

\* actions whose constructor takes no type, choices or nargs
FLAG_ACTIONS == {"store_true", "store_false", "count"}

\* the class argparse registers for a flag action
ActionClass(action) ==
    IF action = "store_true" THEN "_StoreTrueAction"
    ELSE IF action = "store_false" THEN "_StoreFalseAction"
    ELSE "_CountAction"

\* the TypeError of a constructor given a keyword it does not take.  The
\* message names the first such keyword in the order of the dict, which
\* the model does not keep: the parameters hold all of them
UnexpectedKeywordTemplate ==
    "%(cls)s.__init__() got an unexpected keyword argument %(keywords)r"

\* the names that the parser answers to already, in the order given
Conflicting(node, names) ==
    LET taken(x) == x \in OptionStringsOf(node) IN SelectSeq(names, taken)

\* argparse's _handle_conflict_error: ngettext over the number of
\* conflicting option strings, under the name of the argument
ConflictingOptionTemplate(n) ==
    IF n = 1 THEN "argument %(argument)s: conflicting option string: %(conflicts)s"
    ELSE "argument %(argument)s: conflicting option strings: %(conflicts)s"

\* parser.add_argument(*names, **kwargs) of argparse: the error it raises,
\* if any.  A single empty name raises IndexError (args[0][0]).  No name, or one name that does not start with a prefix
\* character, makes a positional argument; anything else an optional one.
AddArgumentError(node, names, kwargs) ==
    LET positional == Len(names) = 0 \/ (Len(names) = 1 /\ ~StartsWith(names[1], dash))
    IN  IF Len(names) = 1 /\ names[1] = <<>>
        THEN [type |-> "IndexError", template |-> IndexErrorTemplate,
              params |-> EmptyDict]
        ELSE IF positional /\ Len(names) > 0 /\ "dest" \in DOMAIN kwargs
        THEN [type |-> "ValueError",
              template |-> "dest supplied twice for positional argument",
              params |-> EmptyDict]
        ELSE IF positional /\ Raised(PositionalKwargsError(names, kwargs))
        THEN PositionalKwargsError(names, kwargs)
        ELSE IF ~positional /\ Raised(OptionalKwargsError(names, kwargs))
        THEN OptionalKwargsError(names, kwargs)
        ELSE IF /\ Get(kwargs, "action") \in FLAG_ACTIONS
                /\ (DOMAIN kwargs) \cap {"type", "choices", "nargs"} # {}
        THEN [type |-> "TypeError", template |-> UnexpectedKeywordTemplate,
              params |-> [cls |-> ActionClass(kwargs.action),
                          keywords |-> (DOMAIN kwargs)
                                          \cap {"type", "choices", "nargs"}]]
        ELSE IF ~positional /\ Range(names) \cap OptionStringsOf(node) # {}
        THEN [type |-> "ArgumentError",
              template |-> ConflictingOptionTemplate(
                               Len(Conflicting(node, names))),
              params |-> [argument |-> Join(names, slash),
                          conflicts |-> Join(Conflicting(node, names),
                                             commaSpace)]]
        ELSE NoError

\* the mutant of StripHelpFlag: -h is never removed
StripHelpFlagNever(node, names) == names

\* if parser.add_help and "-h" in dest_or_opt_strings: remove it
StripHelpFlag(node, names) ==
    IF node.add_help /\ helpFlag \in Range(names)
    THEN LET keep(x) == x # helpFlag IN SelectSeq(names, keep)
    ELSE names

\* the raise of the except clause: type(e)(message), the message of the
\* parser being kept as its template and parameters.  ArgumentError takes
\* two positional arguments (argument, message), so building it from the
\* message alone raises TypeError instead.
WrapError(f, names, e) ==
    IF e.type = "ArgumentError"
    THEN [type |-> "TypeError",
          template |-> "ArgumentError.__init__() missing 1 required positional argument: 'message'",
          params |-> EmptyDict]
    ELSE [type |-> e.type,
          template |-> CannotAddTemplate,
          params |-> [func |-> f.name, args |-> Join(names, slash),
                      msg |-> [template |-> e.template, params |-> e.params]]]

\* parser.add_argument(*names, **draft) inside the try
TryAddArgument(f, reg, names, draft, e) ==
    IF Raised(e)
    THEN [reg EXCEPT !.error = WrapError(f, names, e), !.rejected = e]
    ELSE [reg EXCEPT
            !.node.actions = Append(@, [names |-> names, kwargs |-> draft]),
            !.count = @ + 1]

\* lines 284-289 for a draft that has its help
RegisterDraft(f, reg, names, draft) ==
    TryAddArgument(f, reg, names, draft, AddArgumentError(reg.node, names, draft))

\* one iteration of "for draft in command_args" on a parser node
RegisterOne(f, reg, draft0) ==
    RegisterDraft(f, reg,
        StripHelpFlag(reg.node, draft0.option_strings),
        Without(Without(
            IF "help" \in DOMAIN draft0 THEN draft0
            ELSE Update(draft0, [help |-> DEFAULT_ARGUMENT_TEMPLATE]),
            "option_strings"), "completer"))

RECURSIVE RegisterFrom(_, _, _, _)
\* the registration loop, left at the first raise
RegisterFrom(f, reg, drafts, i) ==
    IF i > Len(drafts) \/ Raised(reg.error) THEN reg
    ELSE RegisterFrom(f, RegisterOne(f, reg, drafts[i]), drafts, i + 1)

\* the mutant of BindFunction: the docstring replaces the description
BindFunctionOverwrite(f, node) ==
    [node EXCEPT !.description = IF Truthy(f.doc) THEN f.doc ELSE @,
                 !.function = <<f>>]

\* Lines 299-305: the description and parser.set_defaults(function=f)
BindFunction(f, node) ==
    [node EXCEPT
        !.description = IF Truthy(f.doc) /\ ~Truthy(node.description)
                        THEN f.doc ELSE @,
        !.function = <<f>>]

\* what a call of set_default_command went through, and the node after it
Outcome(node, f, declared_args, inferred_args, rec, guessed, reg) ==
    [function |-> f,
     declared_before |-> declared_args,
     declared_after |-> rec.declared,
     inferred_args |-> inferred_args,
     command_args |-> rec.command_args,
     guessed |-> guessed,
     error |-> IF Raised(rec.error) THEN rec.error ELSE reg.error,
     rejected |-> IF Raised(rec.error) THEN NoError ELSE reg.rejected,
     at |-> rec.at,
     stage |-> IF Raised(rec.error) THEN "reconcile"
               ELSE IF Raised(reg.error) THEN "register" ELSE "done",
     registered |-> IF Raised(rec.error) THEN 0 ELSE reg.count,
     node |-> IF Raised(rec.error) THEN node
              ELSE IF Raised(reg.error) THEN reg.node
              ELSE BindFunction(f, reg.node)]

\* lines 280-305, after "command_args = [_guess(x) for x in command_args]"
Register(node, f, declared_args, inferred_args, rec, guessed) ==
    Outcome(node, f, declared_args, inferred_args, rec, guessed,
            RegisterFrom(f, [node |-> node, error |-> NoError, rejected |-> NoError,
                             count |-> 0],
                         guessed, 1))

\* [_guess(x) for x in command_args]
GuessAll(command_args) == [i \in DOMAIN command_args |-> Guess(command_args[i])]

\* lines 277-305
GuessAndRegister(node, f, declared_args, inferred_args, rec) ==
    Register(node, f, declared_args, inferred_args, rec, GuessAll(rec.command_args))

\* lines 203-305, inferred_args being list(_get_args_from_signature(f))
Assemble(node, f, declared_args, inferred_args) ==
    GuessAndRegister(node, f, declared_args, inferred_args,
                     Reconcile(f, inferred_args, declared_args))

\* set_default_command(parser, function) on a parser node, the function
\* bearing declared_args as its ATTR_ARGS: the node and the ATTR_ARGS list
\* afterwards, the error raised and what the call went through
SetDefaultCommandOn(node, f, declared_args) ==
    Assemble(node, f, declared_args, GetArgsFromSignature(f))

----------------------------------------------------------------------------
(* add_commands                                                            *)

\* argparse.ArgumentParser(add_help=..., description=...,
\* formatter_class=...)
NewParser(add_help, description, formatter_class) ==
    [add_help |-> add_help, description |-> description, actions |-> <<>>,
     function |-> <<>>, has_subparsers |-> FALSE, commands |-> <<>>,
     formatter_class |-> formatter_class, subparsers_kwargs |-> EmptyDict]

\* getattr(function, ATTR_ARGS, []) where attrs holds the lists that calls
\* have updated: the list the function bears now
AttrArgsIn(attrs, f) == IF f \in DOMAIN attrs THEN attrs[f] ELSE f.declared

\* PARSER_FORMATTER of argh.constants
PARSER_FORMATTER == "PARSER_FORMATTER"

\* the deprecated arguments of add_commands, all left at their defaults
NoDeprecated ==
    [title |-> None, description |-> None, help |-> None,
     namespace |-> NoName, namespace_kwargs |-> EmptyDict]

\* if namespace: group_name = namespace
FoldNamespace(group_name, dep) ==
    IF dep.namespace # NoName THEN dep.namespace ELSE group_name

\* if namespace_kwargs: group_kwargs = namespace_kwargs
FoldNamespaceKwargs(group_kwargs, dep) ==
    IF DOMAIN dep.namespace_kwargs # {} THEN dep.namespace_kwargs ELSE group_kwargs

\* if title: group_kwargs["description"] = title
FoldTitle(group_kwargs, dep) ==
    IF Truthy(dep.title) THEN Update(group_kwargs, [description |-> dep.title])
    ELSE group_kwargs

\* if help: group_kwargs["help"] = help
FoldHelp(group_kwargs, dep) ==
    IF Truthy(dep.help) THEN Update(group_kwargs, [help |-> dep.help])
    ELSE group_kwargs

\* if description: group_kwargs["description"] = description
FoldDescription(group_kwargs, dep) ==
    IF Truthy(dep.description)
    THEN Update(group_kwargs, [description |-> dep.description])
    ELSE group_kwargs

\* group_kwargs after lines 413-457
FoldDeprecated(group_kwargs, dep) ==
    FoldDescription(
        FoldHelp(FoldTitle(FoldNamespaceKwargs(group_kwargs, dep), dep), dep),
        dep)

\* get_subparsers(parser, create=True): the parser has its subparsers
\* action, created when there was none
GetSubparsers(node) == [node EXCEPT !.has_subparsers = TRUE]

\* the parser that subparsers_action.add_parser(name, **kwargs) builds:
\* argparse.ArgumentParser(**kwargs) without help and aliases
ParserFrom(kwargs) ==
    NewParser(IF "add_help" \in DOMAIN kwargs THEN kwargs.add_help ELSE TRUE,
              Get(kwargs, "description"),
              IF "formatter_class" \in DOMAIN kwargs THEN kwargs.formatter_class
              ELSE "HelpFormatter")

\* the entry that add_parser(name, **kwargs) adds to the subparsers action
CommandEntry(holder, name, kwargs) ==
    [name |-> name,
     aliases |-> IF "aliases" \in DOMAIN kwargs THEN kwargs.aliases ELSE <<>>,
     help |-> Get(kwargs, "help"),
     path |-> holder \o <<name>>]

\* the keys of subparsers_action._name_parser_map: the names and the
\* aliases of the parsers added so far
NameParserMap(node) ==
    UNION {{c.name} \cup Range(c.aliases) : c \in Range(node.commands)}

ConflictingSubparserTemplate == "conflicting subparser: %s"

ConflictingAliasTemplate == "conflicting subparser alias: %s"

\* the first of aliases that the map holds already
FirstTaken(aliases, taken) ==
    aliases[CHOOSE i \in DOMAIN aliases :
                /\ aliases[i] \in taken
                /\ \A j \in 1..(i - 1) : aliases[j] \notin taken]

\* what add_parser(name, **kwargs) raises before it creates anything: the
\* name, or else one of the aliases, is in the map
AddParserError(ps, holder, name, kwargs) ==
    IF name \in NameParserMap(ps[holder])
    THEN [type |-> "ArgumentError", template |-> ConflictingSubparserTemplate,
          params |-> [name |-> name]]
    ELSE IF Range(CommandEntry(holder, name, kwargs).aliases)
                \cap NameParserMap(ps[holder]) # {}
    THEN [type |-> "ArgumentError", template |-> ConflictingAliasTemplate,
          params |-> [name |-> FirstTaken(CommandEntry(holder, name, kwargs).aliases,
                                          NameParserMap(ps[holder]))]]
    ELSE NoError

\* subparsers_action.add_parser(name, **kwargs) on the subparsers action of
\* the parser at path holder, in the tree ps, when it does not raise
AddParser(ps, holder, name, kwargs) ==
    [p \in (DOMAIN ps) \cup {holder \o <<name>>} |->
        IF p = holder \o <<name>> THEN ParserFrom(kwargs)
        ELSE IF p = holder
        THEN [ps[p] EXCEPT !.commands = Append(@, CommandEntry(holder, name, kwargs))]
        ELSE ps[p]]

\* subsubparser.add_subparsers(**group_kwargs)
AddSubparsers(node, group_kwargs) ==
    [node EXCEPT !.has_subparsers = TRUE, !.subparsers_kwargs = group_kwargs]

\* lines 463-474 on the tree that has the group parser attached
GroupSubparsers(ps, child, group_kwargs) ==
    [ps EXCEPT ![child] = AddSubparsers(@, group_kwargs)]

\* lines 463-474: the nested parser of the group and its subparsers action
AddGroup(ps, path, group_name, group_kwargs) ==
    GroupSubparsers(
        AddParser(ps, path, group_name, [help |-> Get(group_kwargs, "title")]),
        path \o <<group_name>>, group_kwargs)

\* the mutant of GroupKwargsMisused: the check is dropped
GroupKwargsMisusedNever(group_name, group_kwargs) == FALSE

\* lines 475-478: not group_name, and group_kwargs is not empty
GroupKwargsMisused(group_name, group_kwargs) ==
    group_name = NoName /\ DOMAIN group_kwargs # {}

\* the mutant of CmdName: the function name is used as it is
CmdNameRaw(f) == IF f.cmd_name # NoName THEN f.cmd_name ELSE f.name

\* cmd_name = getattr(func, ATTR_NAME, func.__name__.replace("_", "-"))
CmdName(f) ==
    IF f.cmd_name # NoName THEN f.cmd_name ELSE Replace(f.name, underscore, dash)

\* func_parser_kwargs of _extract_command_meta_from_func
FuncParserKwargs(f) ==
    [help |-> f.doc, formatter_class |-> PARSER_FORMATTER, aliases |-> f.aliases]

\* the tree state after set_default_command(command_parser, func) went as r
\* tells, the command parser being at path child
Bound(t, f, child, ps, r) ==
    [parsers |-> [ps EXCEPT ![child] = r.node],
     attr_args |-> Update(t.attr_args, [g \in {f} |-> r.declared_after]),
     error |-> r.error,
     results |-> Append(t.results,
                        Update(Without(r, "node"),
                               [path |-> child, before |-> ps[child]]))]

\* the mutant of BindCommand: the function is bound on the parser that
\* holds the subparsers action, not on the command parser
BindCommandOnHolder(t, f, child, ps) ==
    Bound(t, f, SubSeq(child, 1, Len(child) - 1), ps,
          SetDefaultCommandOn(ps[SubSeq(child, 1, Len(child) - 1)], f,
                              AttrArgsIn(t.attr_args, f)))

\* line 489 on the tree ps that has the command parser attached at child
BindCommand(t, f, child, ps) ==
    Bound(t, f, child, ps,
          SetDefaultCommandOn(ps[child], f, AttrArgsIn(t.attr_args, f)))

\* the mutant of CommandKwargs: the computed kwargs override the supplied
\* ones
CommandKwargsComputedWin(f, func_kwargs) ==
    Update(func_kwargs, FuncParserKwargs(f))

\* func_parser_kwargs after "if func_kwargs:
\* func_parser_kwargs.update(func_kwargs)"
CommandKwargs(f, func_kwargs) == Update(FuncParserKwargs(f), func_kwargs)

\* one iteration of "for func in functions": what add_parser raises leaves
\* add_commands at line 488, before set_default_command
AddOne(t, holder, f, func_kwargs) ==
    IF Raised(AddParserError(t.parsers, holder, CmdName(f),
                             CommandKwargs(f, func_kwargs)))
    THEN [t EXCEPT !.error = AddParserError(t.parsers, holder, CmdName(f),
                                            CommandKwargs(f, func_kwargs))]
    ELSE BindCommand(t, f, holder \o <<CmdName(f)>>,
                     AddParser(t.parsers, holder, CmdName(f),
                               CommandKwargs(f, func_kwargs)))

RECURSIVE AddFromKeepsGoing(_, _, _, _, _)
\* the mutant of AddFrom: the loop goes on after a raise
AddFromKeepsGoing(t, holder, functions, func_kwargs, i) ==
    IF i > Len(functions) THEN t
    ELSE AddFromKeepsGoing(AddOne(t, holder, functions[i], func_kwargs),
                           holder, functions, func_kwargs, i + 1)

RECURSIVE AddFrom(_, _, _, _, _)
\* the loop over functions, left at the first raise
AddFrom(t, holder, functions, func_kwargs, i) ==
    IF i > Len(functions) \/ Raised(t.error) THEN t
    ELSE AddFrom(AddOne(t, holder, functions[i], func_kwargs),
                 holder, functions, func_kwargs, i + 1)

\* the tree state before the loop over functions
TreeState(ps, attrs, error) ==
    [parsers |-> ps, attr_args |-> attrs, error |-> error, results |-> <<>>]

\* lines 463-489, the parser at path having its subparsers action
AddUnder(ps, attrs, path, functions, group_name, group_kwargs, func_kwargs) ==
    IF group_name # NoName
    THEN IF Raised(AddParserError(ps, path, group_name,
                                  [help |-> Get(group_kwargs, "title")]))
         THEN TreeState(ps, attrs,
                        AddParserError(ps, path, group_name,
                                       [help |-> Get(group_kwargs, "title")]))
         ELSE AddFrom(TreeState(AddGroup(ps, path, group_name, group_kwargs),
                                attrs, NoError),
                      path \o <<group_name>>, functions, func_kwargs, 1)
    ELSE IF GroupKwargsMisused(group_name, group_kwargs)
    THEN TreeState(ps, attrs,
                   [type |-> "ValueError", template |-> GroupKwargsTemplate,
                    params |-> [bq |-> backquote]])
    ELSE AddFrom(TreeState(ps, attrs, NoError), path, functions, func_kwargs, 1)

\* add_commands(parser, functions, group_name, group_kwargs, func_kwargs,
\* **dep) on the parser at path of the tree ps: the tree and the ATTR_ARGS
\* lists afterwards, the error raised and what each function went through
AddCommandsOn(ps, attrs, path, functions, group_name, group_kwargs, func_kwargs, dep) ==
    AddUnder([ps EXCEPT ![path] = GetSubparsers(@)], attrs, path, functions,
             FoldNamespace(group_name, dep),
             FoldDeprecated(group_kwargs, dep), func_kwargs)

----------------------------------------------------------------------------
(* The callables and declarations the model draws its inputs from          *)

foo == <<"f", "o", "o">>

fox == <<"f", "o", "x">>

h_b == <<"h", "_", "b">>

rest == <<"r", "e", "s", "t">>

kwargs == <<"k", "w", "a", "r", "g", "s">>

cmd == <<"c", "m", "d">>

\* "--" + name and "-" + letter
Long(name) == <<dash, dash>> \o name

Short(letter) == <<dash, letter>>

ParamNames == {foo, fox, h_b}

SigDefaultValues == {None, "True", "False", "1"}

\* at most MaxParams named parameters in a generated signature
MaxParams == 2

\* at most MaxDecls @arg declarations on a function
MaxDecls == 2

SeqsUpTo(S, n) == UNION {[1..k -> S] : k \in 0..n}

Injective(s) == \A i, j \in DOMAIN s : s[i] = s[j] => i = j

PartialFunctions(D, V) == UNION {[X -> V] : X \in SUBSET D}

\* a callable with the given signature and declarations, and no other
\* attribute
Callable(args, defaults, kwonlyargs, kwonlydefaults, varargs, varkw, declared) ==
    [name |-> cmd, doc |-> None, args |-> args, defaults |-> defaults,
     kwonlyargs |-> kwonlyargs, kwonlydefaults |-> kwonlydefaults,
     varargs |-> varargs, varkw |-> varkw, annotations |-> EmptyDict,
     expects_obj |-> FALSE, declared |-> declared,
     cmd_name |-> NoName, aliases |-> <<>>]

\* every def cmd(...) whose named parameters are s, in that order, the
\* first p of them positional-or-keyword and the others keyword-only
SignaturesOver(s) ==
    UNION {
        {Callable(SubSeq(s, 1, p), d, SubSeq(s, p + 1, Len(s)), kd, va, vk, <<>>) :
            d \in SeqsUpTo(SigDefaultValues, p),
            kd \in PartialFunctions({s[i] : i \in (p + 1)..Len(s)}, SigDefaultValues),
            va \in {NoName, rest},
            vk \in {NoName, kwargs}} :
        p \in 0..Len(s)}

\* every def cmd(...) with at most MaxParams named parameters drawn from
\* ParamNames, with or without *rest and **kwargs, and no declaration
PlainFunctions ==
    UNION {SignaturesOver(s) :
              s \in {x \in SeqsUpTo(ParamNames, MaxParams) : Injective(x)}}

zed == <<"z", "e", "d">>

bar == <<"b", "a", "r">>

u_x == <<"_", "x">>

u_a == <<"_", "a">>

uu_a == <<"_", "_", "a">>

\* The @arg declarations: dicts of option_strings and keyword arguments.
\* The last seven are ones the parser treats apart: a positional name with
\* required, two positional names, a flag followed by a name without
\* prefix (all three refused by the parser), a flag with a dest of its
\* own, an empty name, a flag followed by an empty name, and the flag
\* ---a, whose destination key is a
Declarations ==
    { [option_strings |-> <<Long(foo)>>, help |-> "bar"],
      [option_strings |-> <<foo>>, help |-> "x"],
      [option_strings |-> <<Short("f"), Long(foo)>>, action |-> "count"],
      [option_strings |-> <<Long(foo)>>, action |-> "store"],
      [option_strings |-> <<Long(foo)>>, action |-> "append"],
      [option_strings |-> <<Long(foo)>>, default |-> "False"],
      [option_strings |-> <<Long(foo)>>, choices |-> <<"1", "3">>],
      [option_strings |-> <<Long(foo)>>, type |-> None],
      [option_strings |-> <<Long(foo)>>, action |-> None],
      [option_strings |-> <<<<"h", "-", "b">>>>],
      [option_strings |-> <<Long(<<"h", "-", "b">>)>>, type |-> "int"],
      [option_strings |-> <<Short("z"), Long(zed)>>, type |-> "str",
       default |-> "3", choices |-> <<"1", "3">>],
      [option_strings |-> <<Long(zed)>>, help |-> "z"],
      [option_strings |-> <<zed>>],
      [option_strings |-> <<Short("h"), Long(<<"h", "o", "s", "t">>)>>],
      [option_strings |-> <<Short("h")>>],
      [option_strings |-> <<foo>>, required |-> TRUE],
      [option_strings |-> <<foo, bar>>],
      [option_strings |-> <<Long(foo), bar>>],
      [option_strings |-> <<Long(zed)>>, dest |-> foo],
      [option_strings |-> <<<<>>>>],
      [option_strings |-> <<Long(foo), <<>>>>],
      [option_strings |-> <<Long(<<dash, "a">>)>>, help |-> "x"] }

DeclLists == {d \in SeqsUpTo(Declarations, MaxDecls) : Len(d) > 0}

\* the signatures that bear declarations: cmd(foo=1), cmd(foo), cmd(foo=True)
\* with a docstring, cmd(foo=False) with an empty docstring, cmd(_x=1),
\* whose flags -_ and --_x become -- and ---x, cmd(h_b, foo=0), cmd(**kwargs),
\* cmd(foo, **kwargs), cmd(), cmd(foo, fox=1, *rest, **kwargs),
\* @expects_obj cmd(args), and cmd(_a=1, foo=1, __a=3, **kwargs), whose
\* flags ---a and ----a both have the destination key a
BaseFunctions ==
    { Callable(<<foo>>, <<"1">>, <<>>, EmptyDict, NoName, NoName, <<>>),
      Callable(<<foo>>, <<>>, <<>>, EmptyDict, NoName, NoName, <<>>),
      [Callable(<<foo>>, <<"True">>, <<>>, EmptyDict, NoName, NoName, <<>>)
          EXCEPT !.doc = "doc"],
      [Callable(<<foo>>, <<"False">>, <<>>, EmptyDict, NoName, NoName, <<>>)
          EXCEPT !.doc = ""],
      Callable(<<u_x>>, <<"1">>, <<>>, EmptyDict, NoName, NoName, <<>>),
      Callable(<<h_b, foo>>, <<"0">>, <<>>, EmptyDict, NoName, NoName, <<>>),
      Callable(<<>>, <<>>, <<>>, EmptyDict, NoName, kwargs, <<>>),
      Callable(<<foo>>, <<>>, <<>>, EmptyDict, NoName, kwargs, <<>>),
      Callable(<<>>, <<>>, <<>>, EmptyDict, NoName, NoName, <<>>),
      Callable(<<foo, fox>>, <<"1">>, <<>>, EmptyDict, rest, kwargs, <<>>),
      [Callable(<<<<"a", "r", "g", "s">>>>, <<>>, <<>>, EmptyDict, NoName, NoName, <<>>)
          EXCEPT !.expects_obj = TRUE],
      Callable(<<u_a, foo, uu_a>>, <<"1", "1", "3">>, <<>>, EmptyDict, NoName, kwargs, <<>>) }

DeclaredFunctions ==
    {[f EXCEPT !.declared = d] : f \in BaseFunctions, d \in DeclLists}

Functions == PlainFunctions \cup BaseFunctions \cup DeclaredFunctions

----------------------------------------------------------------------------
(* State and actions                                                       *)

Root == <<>>

\* getattr(function, ATTR_ARGS, []) in the current state
AttrArgs(f) == AttrArgsIn(attr_args, f)

\* the descriptions a root parser is made with: none, or an empty one
RootDescriptions == {None, ""}

\* argparse.ArgumentParser(add_help=..., description=...) and nothing
\* called yet
Fresh(add_help, description) ==
    /\ parsers = [p \in {Root} |-> NewParser(add_help, description, "HelpFormatter")]
    /\ attr_args = [f \in {} |-> <<>>]
    /\ last = [op |-> "none"]
    /\ calls = {}

Init == \E add_help \in BOOLEAN, description \in RootDescriptions :
            Fresh(add_help, description)

\* the state after set_default_command(parsers[path], f) went as r tells
Assembling(path, f, r) ==
    /\ parsers' = [parsers EXCEPT ![path] = r.node]
    /\ attr_args' = Update(attr_args, [g \in {f} |-> r.declared_after])
    /\ last' = Update(Without(r, "node"),
                      [op |-> "set_default_command", parser |-> path,
                       before |-> parsers[path]])
    /\ calls' = calls \cup {"set_default_command"}

\* set_default_command(parsers[path], f)
SetDefaultCommand(path, f) ==
    Assembling(path, f, SetDefaultCommandOn(parsers[path], f, AttrArgs(f)))

\* one function is assembled on a fresh parser
AssembleOne ==
    /\ calls = {}
    /\ \E f \in Functions : SetDefaultCommand(Root, f)

Next == AssembleOne

Spec == Init /\ [][Next]_vars

----------------------------------------------------------------------------
(* The tree of commands: add_commands and set_default_command on one       *)
(* parser, each called at most once, in either order, the parser being     *)
(* fresh or having had add_subcommands called on it                        *)

hello == <<"h", "e", "l", "l", "o">>

say_hi == <<"s", "a", "y", "_", "h", "i">>

hi == <<"h", "i">>

renamed == <<"n", "_", "w">>

bad == <<"b", "a", "d">>

twice == <<"t", "w", "i", "c", "e">>

greet == <<"g", "r", "e", "e", "t">>

team == <<"t", "e", "a", "m">>

\* def hello() with a docstring; say_hi(foo=1) with @arg("--foo", help="bar")
\* and @aliases("hi"); cmd() with @named("n_w") and an empty docstring;
\* bad(foo) with @aliases("hi"), which cannot stand beside say_hi under one
\* parser, and with
\* @arg("--foo", help="bar"), which set_default_command refuses; twice()
\* with @arg("--foo", help="bar") and @arg("--foo", default=False), the
\* second of which the parser refuses
TreeFunctions ==
    { [Callable(<<>>, <<>>, <<>>, EmptyDict, NoName, NoName, <<>>)
          EXCEPT !.name = hello, !.doc = "doc"],
      [Callable(<<foo>>, <<"1">>, <<>>, EmptyDict, NoName, NoName,
                <<[option_strings |-> <<Long(foo)>>, help |-> "bar"]>>)
          EXCEPT !.name = say_hi, !.aliases = <<hi>>],
      [Callable(<<>>, <<>>, <<>>, EmptyDict, NoName, NoName, <<>>)
          EXCEPT !.cmd_name = renamed, !.doc = ""],
      [Callable(<<foo>>, <<>>, <<>>, EmptyDict, NoName, NoName,
                <<[option_strings |-> <<Long(foo)>>, help |-> "bar"]>>)
          EXCEPT !.name = bad, !.aliases = <<hi>>],
      [Callable(<<>>, <<>>, <<>>, EmptyDict, NoName, NoName,
                <<[option_strings |-> <<Long(foo)>>, help |-> "bar"],
                  [option_strings |-> <<Long(foo)>>, default |-> "False"]>>)
          EXCEPT !.name = twice] }

\* at most MaxBatch functions in a call of add_commands
MaxBatch == 2

\* the lists of functions given to add_commands: a function may come
\* twice, and two functions of a list may answer to one name
Batches == {b \in SeqsUpTo(TreeFunctions, MaxBatch) : Len(b) > 0}

\* the lists of functions given to add_subcommands
GroupBatches == {b \in Batches : Len(b) = 1 /\ b[1].name = hello}

GroupNames == {NoName, greet}

GroupKwargsValues == {EmptyDict, [title |-> "gt"]}

FuncKwargsValues ==
    { EmptyDict,
      [help |-> "fh", description |-> "fd"],
      [formatter_class |-> "RawTextHelpFormatter", description |-> ""] }

\* the deprecated arguments given: none, or one, or title and description,
\* or title, help and description all empty
DeprecatedArgs ==
    { NoDeprecated,
      [NoDeprecated EXCEPT !.namespace = team],
      [NoDeprecated EXCEPT !.namespace_kwargs = [title |-> "nt"]],
      [NoDeprecated EXCEPT !.title = "t"],
      [NoDeprecated EXCEPT !.help = "h"],
      [NoDeprecated EXCEPT !.description = "d"],
      [NoDeprecated EXCEPT !.title = "t", !.description = "d"],
      [NoDeprecated EXCEPT !.title = "", !.help = "", !.description = ""] }

\* the state after add_commands, called by op, went as t tells
Added(op, path, functions, group_name, group_kwargs, func_kwargs, dep, t) ==
    /\ parsers' = t.parsers
    /\ attr_args' = t.attr_args
    /\ last' = [op |-> op, parser |-> path,
                functions |-> functions, group_name |-> group_name,
                group_kwargs |-> group_kwargs, func_kwargs |-> func_kwargs,
                deprecated |-> dep, error |-> t.error, results |-> t.results,
                tree_before |-> parsers]
    /\ calls' = calls \cup {op}

\* add_commands(parsers[path], functions, group_name, group_kwargs,
\* func_kwargs, **dep)
AddCommands(path, functions, group_name, group_kwargs, func_kwargs, dep) ==
    Added("add_commands", path, functions, group_name, group_kwargs,
          func_kwargs, dep,
          AddCommandsOn(parsers, attr_args, path, functions, group_name,
                        group_kwargs, func_kwargs, dep))

\* add_subcommands(parsers[path], group_name, functions, **group_kwargs):
\* the call of add_commands it makes is given no func_kwargs and no
\* deprecated argument
AddSubcommands(path, group_name, functions, group_kwargs) ==
    Added("add_subcommands", path, functions, group_name, group_kwargs,
          EmptyDict, NoDeprecated,
          AddCommandsOn(parsers, attr_args, path, functions, group_name,
                        group_kwargs, EmptyDict, NoDeprecated))

\* set_default_command is called on the root parser
DefaultCommand ==
    /\ "set_default_command" \notin calls
    /\ \E f \in TreeFunctions : SetDefaultCommand(Root, f)

\* add_commands is called on the root parser
Commands ==
    /\ "add_commands" \notin calls
    /\ \E functions \in Batches, group_name \in GroupNames,
          group_kwargs \in GroupKwargsValues, func_kwargs \in FuncKwargsValues,
          dep \in DeprecatedArgs :
            AddCommands(Root, functions, group_name, group_kwargs, func_kwargs, dep)

\* add_subcommands is called on the root parser, which is fresh
Subcommands ==
    /\ calls = {}
    /\ \E group_name \in GroupNames, functions \in GroupBatches,
          group_kwargs \in GroupKwargsValues :
            AddSubcommands(Root, group_name, functions, group_kwargs)

TreeNext == DefaultCommand \/ Commands \/ Subcommands

\* the root parser of the tree is made without description
TreeInit == \E add_help \in BOOLEAN : Fresh(add_help, None)

TreeSpec == TreeInit /\ [][TreeNext]_vars

----------------------------------------------------------------------------
(* What the claims speak of, read from the record of the last call         *)

\* the last call was set_default_command
Assembled == last.op = "set_default_command"

\* ... and it got past reconciliation: command_args went to _guess
PastReconciliation == Assembled /\ last.stage # "reconcile"

DestsOf(specs) == [i \in DOMAIN specs |-> GetDest(specs[i])]

\* the names the signature gives: args, keyword-only args and *varargs
SigParams(f) ==
    Range(f.args) \cup Range(f.kwonlyargs)
        \cup (IF f.varargs # NoName THEN {f.varargs} ELSE {})

\* the declarations, by index, whose destination key is dest
DeclaredFor(dest) ==
    {i \in DOMAIN last.declared_before : GetDest(last.declared_before[i]) = dest}

\* the index in command_args of the spec whose destination key is dest
IndexOfDest(dest) ==
    CHOOSE j \in DOMAIN last.command_args : GetDest(last.command_args[j]) = dest

\* the inferred arguments, by index, whose destination key is dest
InferredWith(dest) ==
    {j \in DOMAIN last.inferred_args : GetDest(last.inferred_args[j]) = dest}

\* the inferred argument of the last parameter whose destination key is
\* dest: the one dests[dest] holds after line 221
LastInferred(dest) ==
    last.inferred_args[CHOOSE j \in InferredWith(dest) :
                           \A m \in InferredWith(dest) : m <= j]

\* the indices of the inferred arguments that are the first with their
\* destination key, in order
FirstsOfKeys ==
    LET first(j) == \A m \in 1..(j - 1) :
                        GetDest(last.inferred_args[m]) # GetDest(last.inferred_args[j])
    IN  SelectSeq([j \in DOMAIN last.inferred_args |-> j], first)

\* what a call that got past reconciliation keeps of the inferred
\* arguments: all of them when nothing is declared (line 203 skips
\* reconciliation), else one per destination key, at the place of the
\* first parameter with the key and inferred from the last
ReconciledInferred ==
    IF Len(last.declared_before) = 0 THEN last.inferred_args
    ELSE [k \in DOMAIN FirstsOfKeys |->
             LastInferred(GetDest(last.inferred_args[FirstsOfKeys[k]]))]

----------------------------------------------------------------------------
(* C1 *)

\* C1 as stated: whenever set_default_command gets past reconciliation, no
\* destination key occurs twice in the list handed to guessing and
\* registration, for every callable, those from which nothing is inferred
\* included.
C1_EveryCallable ==
    PastReconciliation => Injective(DestsOf(last.command_args))

\* C1 amended: whenever set_default_command gets past reconciliation and
\* reconciliation ran (something is inferred and something is declared), no
\* destination key occurs twice in the list handed to guessing and
\* registration; when something is inferred and nothing declared the list is
\* the list of inferred arguments, all of them, as inferred; and when
\* nothing is inferred it is the list of declarations as given.
C1_UniqueDestsWhenReconciled ==
    PastReconciliation =>
        /\ (Len(last.inferred_args) > 0 /\ Len(last.declared_before) > 0)
              => Injective(DestsOf(last.command_args))
        /\ (Len(last.inferred_args) > 0 /\ Len(last.declared_before) = 0)
              => last.command_args = last.inferred_args
        /\ Len(last.inferred_args) = 0
              => last.command_args = last.declared_before

\* two declarations with one destination key went through reconciliation
\* on a callable two of whose parameters have one destination key
C1_Witness ==
    /\ PastReconciliation
    /\ \E i, j \in DOMAIN last.inferred_args :
          i # j /\ GetDest(last.inferred_args[i]) = GetDest(last.inferred_args[j])
    /\ \E i, j \in DOMAIN last.declared_before :
          i # j /\ GetDest(last.declared_before[i]) = GetDest(last.declared_before[j])

----------------------------------------------------------------------------
(* C2 *)

\* the parser computes a destination key for the i-th declaration:
\* _get_dest raises nothing for it
HasDest(i) == ~Raised(DestError(last.declared_before[i]))

\* the last call raised, at the declaration it had come to, what _get_dest
\* raises for it
RefusedByParser ==
    /\ last.at \in DOMAIN last.declared_before
    /\ Raised(last.error)
    /\ last.error = DestError(last.declared_before[last.at])

\* the last call raised what line 220 raises for an inferred argument
\* whose flags the parser does not take, before any declaration
RefusedInferred ==
    /\ Raised(last.error)
    /\ last.at = 0
    /\ last.error = InferredDestError(last.inferred_args)

\* some declaration has a destination key that names no parameter
HasUnmatchedDeclaration ==
    \E i \in DOMAIN last.declared_before :
        /\ HasDest(i)
        /\ GetDest(last.declared_before[i]) \notin SigParams(last.function)

\* C2 as stated: for every callable without **kwargs, whatever the number
\* of its parameters, set_default_command raises an error whenever some
\* declaration has a destination key that matches no parameter.
C2_AnyParameterCount ==
    (Assembled /\ last.function.varkw = NoName /\ HasUnmatchedDeclaration)
        => Raised(last.error)

\* C2 amended: for every callable without **kwargs from whose signature at
\* least one argument is inferred, set_default_command raises during
\* reconciliation whenever some declaration has a destination key that
\* matches no parameter: it raises AssemblingError, or else what the
\* parser raises for a declaration, or an inferred argument, whose names
\* or keywords it does not take; such a declaration is only accepted with
\* **kwargs.
C2_RaisesWhenInferred ==
    (Assembled /\ Len(last.inferred_args) > 0 /\ HasUnmatchedDeclaration)
        => \/ last.function.varkw # NoName
           \/ /\ \/ last.error.type = "AssemblingError"
                 \/ RefusedByParser
                 \/ RefusedInferred
              /\ last.stage = "reconcile"
              /\ parsers[last.parser] = last.before

\* a declaration that fits no parameter was refused
C2_Witness ==
    /\ Assembled
    /\ last.function.varkw = NoName
    /\ HasUnmatchedDeclaration
    /\ last.error.template = MismatchTemplate

----------------------------------------------------------------------------
(* C3 *)

\* the i-th declaration has the destination key of an inferred argument
\* and the opposite classification
ConflictsWithInferred(i) ==
    \E j \in DOMAIN last.inferred_args :
        /\ HasDest(i)
        /\ ~Raised(InferredDestError(last.inferred_args))
        /\ GetDest(last.inferred_args[j]) = GetDest(last.declared_before[i])
        /\ IsPositional(LastInferred(GetDest(last.inferred_args[j])).option_strings)
              # IsPositional(last.declared_before[i].option_strings)

\* whether the inferred argument with destination key dest is positional
InferredPositional(dest) == IsPositional(LastInferred(dest).option_strings)

----------------------------------------------------------------------------
(* C4 *)

\* the spec of command_args whose destination key is dest
SpecFor(dest) == last.command_args[IndexOfDest(dest)]

\* the declarations for dest, by index, that supply field k
Supplying(dest, k) ==
    {i \in DeclaredFor(dest) : k \in DOMAIN last.declared_before[i]}

\* the greatest index of a non-empty set of indices
Latest(I) == CHOOSE i \in I : \A j \in I : j <= i

\* the number of specs of command_args whose destination key is dest
SpecsFor(dest) ==
    Cardinality({k \in DOMAIN last.command_args :
                    GetDest(last.command_args[k]) = dest})

\* C4 as stated: whenever set_default_command gets past reconciliation,
\* each declaration with the destination key of an inferred argument
\* leaves exactly one spec for that key, in which every field of the
\* declaration has the declared value and every field absent from the
\* declaration has its inferred value.
C4_EveryDeclarationWins ==
    PastReconciliation =>
        \A j \in DOMAIN last.inferred_args :
            \A i \in DeclaredFor(GetDest(last.inferred_args[j])) :
                /\ SpecsFor(GetDest(last.inferred_args[j])) = 1
                /\ \A k \in DOMAIN last.declared_before[i] :
                      /\ k \in DOMAIN SpecFor(GetDest(last.inferred_args[j]))
                      /\ SpecFor(GetDest(last.inferred_args[j]))[k]
                            = last.declared_before[i][k]
                /\ \A k \in (DOMAIN last.inferred_args[j])
                                \ (DOMAIN last.declared_before[i]) :
                      /\ k \in DOMAIN SpecFor(GetDest(last.inferred_args[j]))
                      /\ SpecFor(GetDest(last.inferred_args[j]))[k]
                            = last.inferred_args[j][k]

\* C4 amended: whenever set_default_command gets past reconciliation, an
\* inferred argument whose destination key is declared leaves exactly one
\* spec for that key; its fields are those of the inferred argument and of
\* the declarations for the key; a field supplied by declarations has the
\* value of the last declaration supplying it, and a field supplied by no
\* declaration keeps its inferred value (when several parameters have the
\* key, the inferred argument is that of the last of them).
C4_LastDeclarationWins ==
    PastReconciliation =>
        \A j \in DOMAIN last.inferred_args :
            DeclaredFor(GetDest(last.inferred_args[j])) # {} =>
                /\ SpecsFor(GetDest(last.inferred_args[j])) = 1
                /\ DOMAIN SpecFor(GetDest(last.inferred_args[j]))
                      = (DOMAIN LastInferred(GetDest(last.inferred_args[j]))) \cup
                        UNION {DOMAIN last.declared_before[i] :
                                  i \in DeclaredFor(GetDest(last.inferred_args[j]))}
                /\ \A k \in DOMAIN SpecFor(GetDest(last.inferred_args[j])) :
                      SpecFor(GetDest(last.inferred_args[j]))[k]
                          = IF Supplying(GetDest(last.inferred_args[j]), k) # {}
                            THEN last.declared_before[
                                     Latest(Supplying(GetDest(last.inferred_args[j]), k))][k]
                            ELSE LastInferred(GetDest(last.inferred_args[j]))[k]

\* two declarations that name the flags of one inferred argument
\* differently were both merged into it, and the call succeeded
C4_Witness ==
    /\ PastReconciliation
    /\ last.stage = "done"
    /\ \E j \in DOMAIN last.inferred_args :
          /\ DeclaredFor(GetDest(last.inferred_args[j])) = {1, 2}
          /\ last.declared_before[1].option_strings
                # last.declared_before[2].option_strings
          /\ "default" \in DOMAIN last.inferred_args[j]

----------------------------------------------------------------------------
(* C5 *)

\* the parameters of the signature in its order: args, keyword-only args,
\* *varargs
SigOrder(f) ==
    f.args \o f.kwonlyargs \o (IF f.varargs # NoName THEN <<f.varargs>> ELSE <<>>)

\* the index of the first declaration whose destination key is dest
FirstDeclared(dest) == CHOOSE i \in DeclaredFor(dest) : \A j \in DeclaredFor(dest) : i <= j

\* the names under which a spec is registered on the parser of the last call
NamesOnParser(argspec) ==
    LET keep(x) == ~(last.before.add_help /\ x = helpFlag)
    IN  SelectSeq(argspec.option_strings, keep)

\* no parameter name starts with an underscore: each inferred argument has
\* the name of its parameter for destination key
PlainNames(f) ==
    \A k \in DOMAIN SigOrder(f) : ~StartsWith(SigOrder(f)[k], underscore)

\* C5 as stated: whenever set_default_command gets past reconciliation for
\* a callable with inferred arguments, the list starts with one spec per
\* inferred argument, in their order, which is that of the signature (an
\* inferred argument that the parser gives no destination key is there as
\* inferred); the specs after them are the declared keys that name no
\* parameter, one each, in the order of their first declarations; when
\* nothing is inferred the list is the list of declarations as given; and
\* the arguments registered on the parser are the specs of the list, in its
\* order, after those the parser had.
C5_EveryInferredKept ==
    PastReconciliation =>
        /\ Len(last.inferred_args) > 0 =>
              /\ Len(last.command_args) >= Len(last.inferred_args)
              /\ \A k \in DOMAIN last.inferred_args :
                    IF Raised(DestError(last.inferred_args[k]))
                    THEN last.command_args[k] = last.inferred_args[k]
                    ELSE GetDest(last.command_args[k])
                            = GetDest(last.inferred_args[k])
              /\ PlainNames(last.function) =>
                    DestsOf(last.inferred_args) = SigOrder(last.function)
              /\ \A k \in (Len(last.inferred_args) + 1)..Len(last.command_args) :
                    /\ GetDest(last.command_args[k]) \notin SigParams(last.function)
                    /\ DeclaredFor(GetDest(last.command_args[k])) # {}
                    /\ \A m \in (k + 1)..Len(last.command_args) :
                          FirstDeclared(GetDest(last.command_args[k]))
                              < FirstDeclared(GetDest(last.command_args[m]))
              /\ \A i \in DOMAIN last.declared_before :
                    \E k \in DOMAIN last.command_args :
                        GetDest(last.command_args[k]) = GetDest(last.declared_before[i])
        /\ Len(last.inferred_args) = 0 => last.command_args = last.declared_before
        /\ Len(parsers[last.parser].actions)
              = Len(last.before.actions) + last.registered
        /\ \A k \in 1..last.registered :
              parsers[last.parser].actions[Len(last.before.actions) + k].names
                  = NamesOnParser(last.command_args[k])
        /\ last.stage = "done" => last.registered = Len(last.command_args)

\* C5 amended: whenever set_default_command gets past reconciliation for a
\* callable with inferred arguments, the list starts with the inferred
\* arguments it keeps, in the order of the signature: all of them, as
\* inferred, when nothing is declared; else one spec per destination key
\* of the inferred arguments, at the place of the first parameter with the
\* key and, unless a declaration has the key, equal to the argument
\* inferred from the last parameter with it (so every inferred argument,
\* at its place, when the keys differ); the specs after them are the
\* declared keys that no inferred argument has, one each, in the order of
\* their first declarations; when nothing is inferred the list is the list
\* of declarations as given; and the arguments registered on the parser
\* are the specs of the list, in its order, after those the parser had.
C5_OrderKept ==
    PastReconciliation =>
        /\ Len(last.inferred_args) > 0 =>
              /\ Len(last.command_args) >= Len(ReconciledInferred)
              /\ Len(last.declared_before) = 0 =>
                    last.command_args = last.inferred_args
              /\ Len(last.declared_before) > 0 =>
                    \A k \in DOMAIN ReconciledInferred :
                        /\ GetDest(last.command_args[k])
                              = GetDest(ReconciledInferred[k])
                        /\ DeclaredFor(GetDest(ReconciledInferred[k])) = {} =>
                              last.command_args[k] = ReconciledInferred[k]
              /\ Injective(DestsOf(last.inferred_args)) =>
                    Len(ReconciledInferred) = Len(last.inferred_args)
              /\ PlainNames(last.function) =>
                    DestsOf(last.inferred_args) = SigOrder(last.function)
              /\ \A k \in (Len(ReconciledInferred) + 1)..Len(last.command_args) :
                    /\ GetDest(last.command_args[k]) \notin SigParams(last.function)
                    /\ InferredWith(GetDest(last.command_args[k])) = {}
                    /\ DeclaredFor(GetDest(last.command_args[k])) # {}
                    /\ \A m \in (k + 1)..Len(last.command_args) :
                          FirstDeclared(GetDest(last.command_args[k]))
                              < FirstDeclared(GetDest(last.command_args[m]))
              /\ \A i \in DOMAIN last.declared_before :
                    \E k \in DOMAIN last.command_args :
                        GetDest(last.command_args[k]) = GetDest(last.declared_before[i])
        /\ Len(last.inferred_args) = 0 => last.command_args = last.declared_before
        /\ Len(parsers[last.parser].actions)
              = Len(last.before.actions) + last.registered
        /\ \A k \in 1..last.registered :
              parsers[last.parser].actions[Len(last.before.actions) + k].names
                  = NamesOnParser(last.command_args[k])
        /\ last.stage = "done" => last.registered = Len(last.command_args)

\* a declaration was merged into the first of several inferred arguments,
\* another was accepted through **kwargs, and all were registered
C5_Witness ==
    /\ PastReconciliation
    /\ last.stage = "done"
    /\ Len(last.inferred_args) >= 3
    /\ DeclaredFor(GetDest(last.inferred_args[1])) # {}
    /\ Len(last.command_args) > Len(last.inferred_args)
    /\ Len(parsers[last.parser].actions) = Len(last.command_args)

----------------------------------------------------------------------------
(* C6 *)

\* the parameters of the last function whose default is a boolean
BoolParams == {name \in DOMAIN SigDefaults(last.function) :
                  IsBool(SigDefaults(last.function)[name])}

\* the toggle of a boolean default
Toggle(value) == IF value = "True" THEN "store_false" ELSE "store_true"

\* the spec after guessing whose destination key is dest
GuessedFor(dest) == last.guessed[IndexOfDest(dest)]

\* C6 as stated: whenever set_default_command gets past reconciliation
\* with inferred arguments, the spec of a parameter whose default in the
\* signature is a boolean has the toggle of that default for action
\* (store_false for True, store_true for False), unless a declaration for
\* the parameter supplies an action.
C6_ToggleOfSignatureDefault ==
    (PastReconciliation /\ Len(last.inferred_args) > 0) =>
        \A name \in BoolParams :
            Supplying(name, "action") = {} =>
                /\ "action" \in DOMAIN GuessedFor(name)
                /\ GuessedFor(name).action = Toggle(SigDefaults(last.function)[name])

\* the default of the reconciled spec of a parameter: that of the last
\* declaration supplying one, else that of the signature
ReconciledDefault(name) ==
    IF Supplying(name, "default") # {}
    THEN last.declared_before[Latest(Supplying(name, "default"))].default
    ELSE SigDefaults(last.function)[name]

\* C6 amended: whenever set_default_command gets past reconciliation with
\* inferred arguments, for a parameter whose default in the signature is a
\* boolean and for which no declaration supplies an action, the action
\* follows the default of the reconciled spec, which is the default of the
\* last declaration supplying one and else that of the signature: the
\* action is store_false when it is True, store_true when it is False, and
\* none is added when it is not a boolean.
C6_ToggleOfReconciledDefault ==
    (PastReconciliation /\ Len(last.inferred_args) > 0) =>
        \A name \in BoolParams :
            Supplying(name, "action") = {} =>
                IF IsBool(ReconciledDefault(name))
                THEN /\ "action" \in DOMAIN GuessedFor(name)
                     /\ GuessedFor(name).action = Toggle(ReconciledDefault(name))
                ELSE "action" \notin DOMAIN GuessedFor(name)

\* a parameter whose default is True got a declaration whose default is
\* False, and its action was guessed
C6_Witness ==
    /\ PastReconciliation
    /\ last.stage = "done"
    /\ \E name \in BoolParams :
          /\ SigDefaults(last.function)[name] = "True"
          /\ Supplying(name, "action") = {}
          /\ Supplying(name, "default") # {}
          /\ ReconciledDefault(name) = "False"
          /\ GuessedFor(name).action = "store_true"

----------------------------------------------------------------------------
(* C7 *)

\* C7 as stated: guessing returns every field that the spec carries with
\* the value it had, a type or an action supplied as None included, and
\* adds no field other than type and action.
C7_NeverChangesSupplied ==
    PastReconciliation =>
        \A k \in DOMAIN last.command_args :
            /\ \A x \in DOMAIN last.command_args[k] :
                  /\ x \in DOMAIN last.guessed[k]
                  /\ last.guessed[k][x] = last.command_args[k][x]
            /\ (DOMAIN last.guessed[k]) \ (DOMAIN last.command_args[k])
                  \subseteq {"type", "action"}

\* C7 amended: guessing returns every field that the spec carries with the
\* value it had, except a type or an action that the spec carries as None;
\* so a type or an action supplied with a value other than None comes out
\* as supplied, whatever the default and the choices are; and guessing adds
\* no field other than type and action.
C7_NeverChangesSuppliedValue ==
    PastReconciliation =>
        \A k \in DOMAIN last.command_args :
            /\ \A x \in DOMAIN last.command_args[k] :
                  /\ x \in DOMAIN last.guessed[k]
                  /\ (x \in {"type", "action"} => last.command_args[k][x] # None)
                        => last.guessed[k][x] = last.command_args[k][x]
            /\ (DOMAIN last.guessed[k]) \ (DOMAIN last.command_args[k])
                  \subseteq {"type", "action"}

\* a spec with a supplied type, a default of another type and choices
\* went through guessing, in a call where another spec got a type guessed
C7_Witness ==
    /\ PastReconciliation
    /\ \E k \in DOMAIN last.command_args :
          /\ "type" \in DOMAIN last.command_args[k]
          /\ "default" \in DOMAIN last.command_args[k]
          /\ "choices" \in DOMAIN last.command_args[k]
          /\ last.command_args[k].type
                # TypeOf(last.command_args[k].default)
    /\ \E k \in DOMAIN last.command_args :
          /\ "type" \notin DOMAIN last.command_args[k]
          /\ "type" \in DOMAIN last.guessed[k]

----------------------------------------------------------------------------
(* C8 *)

\* a short flag: a dash and one other character
IsShort(x) == Len(x) = 2 /\ x[1] = dash /\ x[2] # dash

\* the parameters of the last function that are inferred as flags
FlagParams ==
    (DOMAIN SigDefaults(last.function)) \cup Range(last.function.kwonlyargs)

\* the short flags among the names of a spec
ShortsOf(argspec) == {x \in Range(argspec.option_strings) : IsShort(x)}

\* C8: whenever set_default_command is called for a callable without
\* declarations, no two inferred arguments carry the same short flag; each
\* flag-style parameter keeps its long form, and none of those that share
\* their first letter with another parameter keeps a short form; and no
\* option string is registered twice on the parser.
C8_NoDuplicateShortFlags ==
    (Assembled /\ last.declared_before = <<>>) =>
        /\ \A i, j \in DOMAIN last.inferred_args :
              i # j => ShortsOf(last.inferred_args[i])
                          \cap ShortsOf(last.inferred_args[j]) = {}
        /\ \A name \in FlagParams :
              \E j \in DOMAIN last.inferred_args :
                  /\ Replace(Long(name), underscore, dash)
                        \in Range(last.inferred_args[j].option_strings)
                  /\ ShortsOf(last.inferred_args[j]) \subseteq {Short(name[1])}
                  /\ (\E other \in FlagParams : other # name /\ other[1] = name[1])
                        => ShortsOf(last.inferred_args[j]) = {}
        /\ \A i, j \in DOMAIN parsers[last.parser].actions :
              i # j => Range(parsers[last.parser].actions[i].names)
                          \cap Range(parsers[last.parser].actions[j].names) = {}

\* two flag-style parameters with one first letter were inferred and
\* registered
C8_Witness ==
    /\ Assembled
    /\ last.declared_before = <<>>
    /\ last.stage = "done"
    /\ \E a, b \in FlagParams : a # b /\ a[1] = b[1]
    /\ Len(parsers[last.parser].actions) >= 2

----------------------------------------------------------------------------
(* C9 *)

\* the last call was add_commands, made directly or by add_subcommands
CommandsAdded == last.op \in {"add_commands", "add_subcommands"}

\* the parser at path p has a default function bound
HasDefault(ps, p) == ps[p].function # <<>>

\* the parser at path p has a subcommand level
HasSubcommands(ps, p) == ps[p].has_subparsers \/ ps[p].commands # <<>>

\* C9: add_commands called on a parser that has a default function bound
\* raises AssemblingError and attaches nothing, and in every state no
\* parser has both a bound default function and subcommands.
C9_ModesExclusive ==
    /\ \A p \in DOMAIN parsers : ~(HasDefault(parsers, p) /\ HasSubcommands(parsers, p))
    /\ (CommandsAdded /\ HasDefault(last.tree_before, last.parser)) =>
          /\ last.error.type = "AssemblingError"
          /\ parsers = last.tree_before

----------------------------------------------------------------------------
(* C10 *)

\* the call of add_commands was given non-empty group-level configuration
GroupConfigGiven ==
    \/ DOMAIN last.group_kwargs # {}
    \/ DOMAIN last.deprecated.namespace_kwargs # {}
    \/ last.deprecated.title \notin {None, ""}
    \/ last.deprecated.help \notin {None, ""}
    \/ last.deprecated.description \notin {None, ""}

\* the call of add_commands was given no group name
NoGroupNameGiven == last.group_name = NoName /\ last.deprecated.namespace = NoName

\* C10: add_commands called with non-empty group_kwargs, or with a
\* non-empty one of the deprecated title, help, description and
\* namespace_kwargs, and with
\* no group name (group_name or the deprecated namespace) raises ValueError
\* and attaches none of the given functions: no function went to
\* set_default_command, and the tree has no new parser, command, argument
\* or bound function.
C10_GroupKwargsNeedGroupName ==
    (CommandsAdded /\ GroupConfigGiven /\ NoGroupNameGiven) =>
        /\ last.error.type = "ValueError"
        /\ last.error.template = GroupKwargsTemplate
        /\ last.results = <<>>
        /\ DOMAIN parsers = DOMAIN last.tree_before
        /\ \A p \in DOMAIN parsers :
              /\ parsers[p].commands = last.tree_before[p].commands
              /\ parsers[p].actions = last.tree_before[p].actions
              /\ parsers[p].function = last.tree_before[p].function

\* add_commands refused a deprecated title given without a group name, on
\* a parser that has a default command
C10_Witness ==
    /\ CommandsAdded
    /\ NoGroupNameGiven
    /\ last.deprecated.title = "t"
    /\ DOMAIN last.group_kwargs = {}
    /\ Len(last.functions) = 2
    /\ last.error.type = "ValueError"
    /\ HasDefault(parsers, last.parser)

----------------------------------------------------------------------------
(* C11 *)

\* the group name that the last call of add_commands was given, as
\* group_name or as the deprecated namespace
GroupNameGiven ==
    IF last.deprecated.namespace # NoName THEN last.deprecated.namespace
    ELSE last.group_name

\* the path of the parser of the group of the last call
GroupPath == last.parser \o <<GroupNameGiven>>

\* the name under which the k-th function of the last call is attached
NameOfFunction(k) ==
    IF last.functions[k].cmd_name # NoName THEN last.functions[k].cmd_name
    ELSE Replace(last.functions[k].name, underscore, dash)

\* the parser the last call was made on had a command or an alias of the
\* name of the group
GroupNameTaken ==
    GroupNameGiven \in NameParserMap(last.tree_before[last.parser])

\* C11: after add_commands with a group name that no command of the
\* parser bears yet, the parser has one more command, named after the
\* group; the new parsers are the parser of the group and, beneath it, one
\* command parser per function that the call reached, in the order given
\* (all of them when no error is raised); the parser of the group has a
\* subcommand level and no bound function, and each command parser whose
\* function was assembled without error has that function bound.  With a
\* group name that a command of the parser bears already, the call raises
\* the parser's ArgumentError and adds no parser and no command.
C11_GroupLevel ==
    /\ (CommandsAdded /\ GroupNameGiven # NoName /\ GroupNameTaken) =>
        /\ last.error = [type |-> "ArgumentError",
                         template |-> ConflictingSubparserTemplate,
                         params |-> [name |-> GroupNameGiven]]
        /\ DOMAIN parsers = DOMAIN last.tree_before
        /\ parsers[last.parser].commands
              = last.tree_before[last.parser].commands
        /\ parsers[GroupPath] = last.tree_before[GroupPath]
    /\ (CommandsAdded /\ GroupNameGiven # NoName /\ ~GroupNameTaken) =>
        /\ Len(parsers[last.parser].commands)
              = Len(last.tree_before[last.parser].commands) + 1
        /\ parsers[last.parser].commands[Len(parsers[last.parser].commands)].name
              = GroupNameGiven
        /\ parsers[last.parser].commands[Len(parsers[last.parser].commands)].path
              = GroupPath
        /\ parsers[last.parser].function = last.tree_before[last.parser].function
        /\ (DOMAIN parsers) \ (DOMAIN last.tree_before)
              = {GroupPath} \cup
                {GroupPath \o <<NameOfFunction(k)>> : k \in DOMAIN last.results}
        /\ ~HasDefault(parsers, GroupPath)
        /\ parsers[GroupPath].has_subparsers
        /\ Len(parsers[GroupPath].commands) = Len(last.results)
        /\ ~Raised(last.error) => Len(last.results) = Len(last.functions)
        /\ \A k \in DOMAIN last.results :
              /\ parsers[GroupPath].commands[k].name = NameOfFunction(k)
              /\ parsers[GroupPath].commands[k].path
                    = GroupPath \o <<NameOfFunction(k)>>
              /\ ~Raised(last.results[k].error) =>
                    parsers[GroupPath \o <<NameOfFunction(k)>>].function
                        = <<last.functions[k]>>

\* two functions were attached beneath a group and each was bound on its
\* command parser
C11_Witness ==
    /\ CommandsAdded
    /\ GroupNameGiven = greet
    /\ ~Raised(last.error)
    /\ Len(last.functions) = 2
    /\ Cardinality(DOMAIN parsers) = 4
    /\ \A k \in 1..2 : HasDefault(parsers, GroupPath \o <<NameOfFunction(k)>>)

----------------------------------------------------------------------------
(* C12 *)

\* the path of the parser beneath which the last call attached commands
HolderPath == IF GroupNameGiven # NoName THEN GroupPath ELSE last.parser

\* the path of the command parser of the k-th function of the last call
CommandPath(k) == HolderPath \o <<NameOfFunction(k)>>

\* C12 as stated: when add_commands raises while assembling a function of
\* the batch, every command parser of the batch that is attached has its
\* function bound and all its arguments registered.
C12_NothingPartial ==
    (CommandsAdded /\ Raised(last.error) /\ Len(last.results) > 0) =>
        \A k \in DOMAIN last.functions :
            CommandPath(k) \in DOMAIN parsers =>
                /\ HasDefault(parsers, CommandPath(k))
                /\ last.results[k].stage = "done"

\* the paths of the parsers that the last call created
NewPaths == (DOMAIN parsers) \ (DOMAIN last.tree_before)

\* the names and aliases under which the last call attaches f
CommandNamesOf(f) ==
    {CmdName(f)} \cup Range(CommandKwargs(f, last.func_kwargs).aliases)

\* the last call raised out of add_parser: not out of the assembly of a
\* function, and not for group_kwargs given without group_name
RefusedName ==
    /\ Raised(last.error)
    /\ last.error.type = "ArgumentError"
    /\ last.error.template
          \in {ConflictingSubparserTemplate, ConflictingAliasTemplate}

\* C12 amended: add_commands stops at the first function whose assembly
\* raises, or whose name or alias the parser has already, and raises that
\* error itself; the functions before it stay attached with their
\* arguments registered and their function bound, the functions after it
\* are not attached, and the command parser of a function whose assembly
\* failed stays attached without bound function, holding the arguments
\* registered before the failure, while a function whose name or alias
\* was taken gets no command parser.
C12_StopsAtFirstFailure ==
    CommandsAdded =>
        /\ NewPaths \ {GroupPath} = {CommandPath(k) : k \in DOMAIN last.results}
        /\ RefusedName =>
              /\ \A k \in DOMAIN last.results : ~Raised(last.results[k].error)
              /\ Len(last.results) < Len(last.functions) \/ GroupNameTaken
              /\ (GroupNameGiven = NoName \/ ~GroupNameTaken) =>
                    /\ HolderPath \in DOMAIN parsers
                    /\ Len(parsers[HolderPath].commands)
                          = (IF HolderPath \in DOMAIN last.tree_before
                             THEN Len(last.tree_before[HolderPath].commands)
                             ELSE 0) + Len(last.results)
                    /\ (CommandNamesOf(last.functions[Len(last.results) + 1])
                          \cap NameParserMap(parsers[HolderPath])) # {}
        /\ \A k \in DOMAIN last.results :
              /\ CommandPath(k) \in DOMAIN parsers
              /\ Len(parsers[CommandPath(k)].actions) = last.results[k].registered
              /\ Raised(last.results[k].error) =>
                    /\ k = Len(last.results)
                    /\ last.error = last.results[k].error
                    /\ ~HasDefault(parsers, CommandPath(k))
              /\ ~Raised(last.results[k].error) =>
                    /\ last.results[k].stage = "done"
                    /\ last.results[k].registered
                          = Len(last.results[k].command_args)
                    /\ parsers[CommandPath(k)].function = <<last.functions[k]>>
        /\ (Raised(last.error) /\ ~RefusedName /\ Len(last.results) > 0) =>
              Raised(last.results[Len(last.results)].error)
        /\ ~Raised(last.error) => Len(last.results) = Len(last.functions)

\* the second function of a batch was refused by the parser after one of
\* its arguments was registered, the first function being attached
C12_Witness ==
    /\ CommandsAdded
    /\ Len(last.functions) = 2
    /\ Len(last.results) = 2
    /\ last.results[2].stage = "register"
    /\ last.results[2].registered = 1
    /\ HasDefault(parsers, CommandPath(1))
    /\ ~HasDefault(parsers, CommandPath(2))

----------------------------------------------------------------------------
(* C13 *)

\* the entry of the k-th function of the last call in the subparsers
\* action it was attached to
EntryOf(k) ==
    parsers[HolderPath].commands[
        (IF HolderPath \in DOMAIN last.tree_before
         THEN Len(last.tree_before[HolderPath].commands) ELSE 0) + k]

\* the value of key in the configuration of the command parser of f: that
\* of func_kwargs when it has the key, else the one computed for f
Configured(key, computed) ==
    IF key \in DOMAIN last.func_kwargs THEN last.func_kwargs[key] ELSE computed

\* C13: each function that add_commands attaches gets a command whose help
\* is the help of func_kwargs, else the docstring of the function, whose
\* aliases are those of func_kwargs, else those attached to the function,
\* and a parser whose formatter is that of func_kwargs, else
\* PARSER_FORMATTER, and whose description, as the parser is created, is
\* that of func_kwargs, else none; once the function is bound the
\* description is that of func_kwargs when it gives one that is not
\* empty, else the docstring of the function when it has one that is not
\* empty, else as the parser was created with.
C13_FuncKwargsOverride ==
    CommandsAdded =>
        \A k \in DOMAIN last.results :
            /\ EntryOf(k).name = NameOfFunction(k)
            /\ EntryOf(k).help = Configured("help", last.functions[k].doc)
            /\ EntryOf(k).aliases = Configured("aliases", last.functions[k].aliases)
            /\ parsers[CommandPath(k)].formatter_class
                  = Configured("formatter_class", PARSER_FORMATTER)
            /\ last.results[k].before.description = Configured("description", None)
            /\ last.results[k].before.add_help = Configured("add_help", TRUE)
            /\ ~Raised(last.results[k].error) =>
                  parsers[CommandPath(k)].description
                      = IF Configured("description", None) \notin {None, ""}
                        THEN last.func_kwargs.description
                        ELSE IF last.functions[k].doc \notin {None, ""}
                        THEN last.functions[k].doc
                        ELSE Configured("description", None)

\* two functions with different docstrings and aliases were attached with
\* a help and a description given in func_kwargs
C13_Witness ==
    /\ CommandsAdded
    /\ ~Raised(last.error)
    /\ Len(last.results) = 2
    /\ last.functions[1].doc # last.functions[2].doc
    /\ last.functions[1].aliases # last.functions[2].aliases
    /\ "help" \in DOMAIN last.func_kwargs
    /\ "description" \in DOMAIN last.func_kwargs
    /\ EntryOf(1).help = EntryOf(2).help

----------------------------------------------------------------------------
(* C14 *)

\* the functions that a word resolves to beneath the parser the last call
\* attached commands to: those bound on the parsers of the commands that
\* have the word for name or alias
ResolvesTo(word) ==
    {parsers[parsers[HolderPath].commands[e].path].function :
        e \in {x \in DOMAIN parsers[HolderPath].commands :
                  \/ parsers[HolderPath].commands[x].name = word
                  \/ word \in Range(parsers[HolderPath].commands[x].aliases)}}

\* C14: a function that add_commands attached without error is resolved
\* by its explicit name as it is, when it has one, and then not by its own
\* name; it is else resolved by its name with every underscore replaced by
\* a hyphen, and not by its name with underscores; and each of its aliases
\* resolves to it, and to nothing else.
C14_CommandName ==
    CommandsAdded =>
        \A k \in DOMAIN last.results :
            ~Raised(last.results[k].error) =>
                /\ last.functions[k].cmd_name # NoName =>
                      /\ ResolvesTo(last.functions[k].cmd_name)
                            = {<<last.functions[k]>>}
                      /\ last.functions[k].name # last.functions[k].cmd_name =>
                            <<last.functions[k]>>
                                \notin ResolvesTo(last.functions[k].name)
                /\ last.functions[k].cmd_name = NoName =>
                      /\ ResolvesTo(Replace(last.functions[k].name, underscore, dash))
                            = {<<last.functions[k]>>}
                      /\ underscore \in Range(last.functions[k].name) =>
                            ResolvesTo(last.functions[k].name) = {}
                /\ "aliases" \notin DOMAIN last.func_kwargs =>
                      \A a \in Range(last.functions[k].aliases) :
                          ResolvesTo(a) = {<<last.functions[k]>>}

\* a function with an explicit name and a function with an underscore in
\* its name and an alias were attached
C14_Witness ==
    /\ CommandsAdded
    /\ ~Raised(last.error)
    /\ \E k \in DOMAIN last.results :
          /\ last.functions[k].cmd_name = renamed
          /\ ResolvesTo(renamed) = {<<last.functions[k]>>}
    /\ \E k \in DOMAIN last.results :
          /\ last.functions[k].name = say_hi
          /\ ResolvesTo(hi) = {<<last.functions[k]>>}
          /\ ResolvesTo(<<"s", "a", "y", "-", "h", "i">>) = {<<last.functions[k]>>}

----------------------------------------------------------------------------
(* C15 *)

\* the declarations before the one that raised, by index, whose
\* destination key is that of the j-th inferred argument
MergedBefore(j) ==
    {i \in 1..(last.at - 1) :
        GetDest(last.declared_before[i]) = GetDest(last.inferred_args[j])}

\* the names of the j-th inferred argument when the error was raised:
\* those of the last declaration merged into it, else the inferred ones
KnownNames(j) ==
    IF MergedBefore(j) = {} THEN last.inferred_args[j].option_strings
    ELSE last.declared_before[Latest(MergedBefore(j))].option_strings

\* C15: the signature-mismatch error is raised at a declaration whose
\* destination key names no parameter; it is an AssemblingError whose
\* message is the name of the function, ": argument ", the names of that
\* declaration joined by ", ", " does not fit function signature: " and
\* the arguments known at that point, in signature order, joined by ", ",
\* each shown as its names (as merged so far) joined by "/".
C15_MismatchMessage ==
    (Assembled /\ last.error.template = MismatchTemplate) =>
        /\ last.error.type = "AssemblingError"
        /\ last.stage = "reconcile"
        /\ last.error.template
              = "{func}: argument {flags} does not fit function signature: {sig}"
        /\ last.at \in DOMAIN last.declared_before
        /\ GetDest(last.declared_before[last.at]) \notin SigParams(last.function)
        /\ last.error.params.func = last.function.name
        /\ last.error.params.flags
              = Join(last.declared_before[last.at].option_strings, <<",", " ">>)
        /\ last.error.params.sig
              = Join([j \in DOMAIN last.inferred_args |-> Join(KnownNames(j), <<"/">>)],
                     <<",", " ">>)

\* the second declaration was refused for a function of two parameters,
\* one of which had got other names from the first declaration
C15_Witness ==
    /\ Assembled
    /\ last.error.template = MismatchTemplate
    /\ last.at = 2
    /\ Len(last.inferred_args) = 2
    /\ \E j \in DOMAIN last.inferred_args :
          /\ MergedBefore(j) # {}
          /\ KnownNames(j) # last.inferred_args[j].option_strings
    /\ Len(last.declared_before[2].option_strings) = 2

----------------------------------------------------------------------------
(* C16 *)

\* the spec that the parser refused in the last call
RefusedSpec == last.guessed[last.registered + 1]

\* C16: when the parser refuses a spec during registration,
\* set_default_command raises an error of the type of the error that the
\* parser raised, whose message is the name of the function, ": cannot
\* add arg ", the names handed to the parser joined by "/", ": " and the
\* message of the parser; and the function is not bound.
C16_SameTypeReraised ==
    (Assembled /\ last.stage = "register") =>
        /\ Raised(last.rejected)
        /\ last.error.type = last.rejected.type
        /\ last.error.template = "{func}: cannot add arg {args}: {msg}"
        /\ last.error.params
              = [func |-> last.function.name,
                 args |-> Join(NamesOnParser(RefusedSpec), <<"/">>),
                 msg |-> [template |-> last.rejected.template,
                          params |-> last.rejected.params]]
        /\ parsers[last.parser].function = last.before.function

----------------------------------------------------------------------------
(* C17 *)

\* the k-th spec of the last call shares no name with an earlier one
NamesNotTaken(k) ==
    \A j \in 1..(k - 1) :
        Range(last.guessed[j].option_strings)
            \cap Range(last.guessed[k].option_strings) = {}

\* C17: of the specs that the registration loop reaches and whose names
\* are not taken by an earlier spec, each one that has the name -h is
\* registered without error, under its other names, when the parser has
\* add_help; and when the parser has not add_help, a registered spec is
\* registered under its names unchanged.
C17_HelpFlagStripped ==
    PastReconciliation =>
        \A k \in DOMAIN last.guessed :
            (k <= last.registered + 1 /\ NamesNotTaken(k)) =>
                IF last.before.add_help
                THEN helpFlag \in Range(last.guessed[k].option_strings) =>
                        /\ k <= last.registered
                        /\ parsers[last.parser].actions[
                               Len(last.before.actions) + k].names
                              = SelectSeq(last.guessed[k].option_strings,
                                          LAMBDA x : x # helpFlag)
                ELSE k <= last.registered =>
                        parsers[last.parser].actions[
                            Len(last.before.actions) + k].names
                          = last.guessed[k].option_strings

----------------------------------------------------------------------------
(* C18 *)

\* the calls of set_default_command that the last call made and that
\* succeeded: the function, the parser as it was, and the parser now
Bindings ==
    IF Assembled
    THEN IF last.stage = "done"
         THEN {[function |-> last.function, before |-> last.before,
                after |-> parsers[last.parser]]}
         ELSE {}
    ELSE IF CommandsAdded
    THEN {[function |-> last.functions[k], before |-> last.results[k].before,
           after |-> parsers[CommandPath(k)]] :
             k \in {j \in DOMAIN last.results : last.results[j].stage = "done"}}
    ELSE {}

\* C18: after set_default_command succeeds, the function is the default
\* handler of the parser, and the description of the parser is the
\* docstring of the function when the parser had none and the function has
\* one, else the description the parser had; an empty description and an
\* empty docstring count as none.
C18_HandlerAndDescription ==
    \A b \in Bindings :
        /\ b.after.function = <<b.function>>
        /\ b.after.description
              = IF /\ b.before.description \in {None, ""}
                   /\ b.function.doc \notin {None, ""}
                THEN b.function.doc
                ELSE b.before.description

\* add_commands bound a function that has a docstring on a command parser
\* that got its description from func_kwargs, and the description stayed
C18_Witness ==
    /\ CommandsAdded
    /\ "description" \in DOMAIN last.func_kwargs
    /\ \E b \in Bindings :
          /\ b.function.doc \notin {None, ""}
          /\ last.func_kwargs.description # ""
          /\ b.before.description = last.func_kwargs.description
          /\ b.after.description = last.func_kwargs.description
          /\ b.after.description # b.function.doc

----------------------------------------------------------------------------
(* C19 *)

\* the spec inferred for the i-th keyword-only parameter of the function
\* of the last call, would the keyword-only parameters come after the others
KwonlySpec(i) == last.inferred_args[Len(last.function.args) + i]

\* C19: when the signature is inspected, the spec that follows those of
\* the positional-or-keyword parameters at the place of a keyword-only
\* parameter is flag-style and bears its long name; it has required=True
\* and no default when the parameter has no default, and the default of the
\* parameter and no required otherwise.
C19_KeywordOnly ==
    (Assembled /\ ~last.function.expects_obj) =>
        \A i \in DOMAIN last.function.kwonlyargs :
            LET name == last.function.kwonlyargs[i]
            IN  /\ Len(last.function.args) + i \in DOMAIN last.inferred_args
                /\ \A j \in DOMAIN KwonlySpec(i).option_strings :
                      StartsWith(KwonlySpec(i).option_strings[j], dash)
                /\ Long(Replace(name, underscore, dash))
                      \in Range(KwonlySpec(i).option_strings)
                /\ IF name \in DOMAIN last.function.kwonlydefaults
                   THEN /\ "default" \in DOMAIN KwonlySpec(i)
                        /\ KwonlySpec(i).default = last.function.kwonlydefaults[name]
                        /\ "required" \notin DOMAIN KwonlySpec(i)
                   ELSE /\ "required" \in DOMAIN KwonlySpec(i)
                        /\ KwonlySpec(i).required = TRUE
                        /\ "default" \notin DOMAIN KwonlySpec(i)

\* a function with a positional-or-keyword parameter and a keyword-only
\* parameter without default was inspected
C19_Witness ==
    /\ Assembled
    /\ ~last.function.expects_obj
    /\ Len(last.function.args) = 1
    /\ Len(last.function.kwonlyargs) = 1
    /\ last.function.kwonlyargs[1] \notin DOMAIN last.function.kwonlydefaults
    /\ Len(last.inferred_args) = 2
    /\ last.inferred_args[2].required = TRUE

----------------------------------------------------------------------------
(* C20 *)

\* the spec inferred for the parameter name of the function of the last call
InferredFor(name) ==
    last.inferred_args[CHOOSE j \in DOMAIN last.inferred_args :
        Replace(Long(name), underscore, dash)
            \in Range(last.inferred_args[j].option_strings)
        \/ last.inferred_args[j].option_strings = <<name>>]

\* C20: when the signature is inspected, a flag-style parameter has no
\* short form exactly when another flag-style parameter has its first
\* letter, and has the short form of its first letter otherwise; a
\* positional parameter with that first letter changes nothing.
C20_ShortFormAmongFlags ==
    (Assembled /\ ~last.function.expects_obj) =>
        \A name \in FlagParams :
            ShortsOf(InferredFor(name))
                = IF \E other \in FlagParams : other # name /\ other[1] = name[1]
                  THEN {}
                  ELSE {Short(name[1])}

----------------------------------------------------------------------------
(* C21 *)

\* the positional-or-keyword parameters of the function of the last call
\* that have no default, by index in spec.args
PositionalParams ==
    {i \in DOMAIN last.function.args :
        last.function.args[i] \notin DOMAIN SigDefaults(last.function)}

\* C21: when the signature is inspected, a parameter without default that
\* is not keyword-only is inferred as a positional argument whose single
\* name is the name of the parameter with each underscore replaced by a
\* hyphen, and whose destination key is the name of the parameter.
C21_PositionalNameHyphenated ==
    (Assembled /\ ~last.function.expects_obj) =>
        \A i \in PositionalParams :
            /\ last.inferred_args[i].option_strings
                  = <<Replace(last.function.args[i], underscore, dash)>>
            /\ GetDest(last.inferred_args[i]) = last.function.args[i]

----------------------------------------------------------------------------
(* C22 *)

\* the number of named parameters of the function of the last call
NamedCount == Len(last.function.args) + Len(last.function.kwonlyargs)

\* C22: when the signature is inspected, a function with *varargs gets
\* one spec more than it has named parameters, the last one, which is the
\* positional named as the collector with nargs "*" and nothing else (no
\* default); a function without *varargs gets one spec per named parameter
\* and none with nargs.
C22_VarargsSpec ==
    (Assembled /\ ~last.function.expects_obj) =>
        IF last.function.varargs # NoName
        THEN /\ Len(last.inferred_args) = NamedCount + 1
             /\ last.inferred_args[NamedCount + 1]
                   = [option_strings |-> <<last.function.varargs>>, nargs |-> "*"]
             /\ IsPositional(last.inferred_args[NamedCount + 1].option_strings)
             /\ \A i \in 1..NamedCount : "nargs" \notin DOMAIN last.inferred_args[i]
        ELSE /\ Len(last.inferred_args) = NamedCount
             /\ \A i \in 1..NamedCount : "nargs" \notin DOMAIN last.inferred_args[i]

\* a function with a positional-or-keyword parameter, a keyword-only
\* parameter and *varargs was inspected
C22_Witness ==
    /\ Assembled
    /\ ~last.function.expects_obj
    /\ Len(last.function.args) = 1
    /\ Len(last.function.kwonlyargs) = 1
    /\ last.function.varargs # NoName
    /\ Len(last.inferred_args) = 3
    /\ last.inferred_args[3].nargs = "*"

----------------------------------------------------------------------------
(* C23 *)

\* the arguments that the last call added to the parser
Registered ==
    SubSeq(parsers[last.parser].actions,
           Len(last.before.actions) + 1, Len(parsers[last.parser].actions))

\* C23: a function marked as expecting the namespace object has nothing
\* inferred; when nothing is inferred and there are declarations,
\* set_default_command raises no AssemblingError and hands the
\* declarations, as declared and in declared order, to the parser, which
\* gets one argument for each, under its names, up to the first one it
\* refuses, and all of them when the call succeeds; when there are no
\* declarations the inferred list is what goes to the parser.
C23_DeclarationsAlone ==
    Assembled =>
        /\ last.function.expects_obj => last.inferred_args = <<>>
        /\ (last.inferred_args = <<>> /\ last.declared_before # <<>>) =>
              /\ last.stage # "reconcile"
              /\ last.error.type # "AssemblingError"
              /\ last.command_args = last.declared_before
              /\ Len(Registered) = last.registered
              /\ \A k \in 1..last.registered :
                    Registered[k].names = NamesOnParser(last.declared_before[k])
              /\ last.stage = "done" => last.registered = Len(last.declared_before)
        /\ last.declared_before = <<>> =>
              /\ last.stage # "reconcile"
              /\ last.command_args = last.inferred_args
              /\ Len(Registered) = last.registered
              /\ \A k \in 1..last.registered :
                    Registered[k].names = NamesOnParser(last.inferred_args[k])

\* a function without parameters and without **kwargs, bearing two
\* declarations, got both registered
C23_Witness ==
    /\ Assembled
    /\ ~last.function.expects_obj
    /\ last.function.varkw = NoName
    /\ last.inferred_args = <<>>
    /\ Len(last.declared_before) = 2
    /\ last.stage = "done"
    /\ Len(Registered) = 2

----------------------------------------------------------------------------
(* C24 *)

\* the action of a spec, "store" when it has no action key
ImpliedAction(kw) == IF "action" \in DOMAIN kw THEN kw.action ELSE "store"

\* the rule that guesses the action from a boolean default fires for kw
BoolRuleFires(kw) ==
    Get(kw, "default") # None /\ IsBool(kw.default) /\ Get(kw, "action") = None

\* what guessing leaves as type when the type is not taken from the
\* default: the type of the first choice when there are choices and no
\* type key, else the type key as supplied, if any
TypeNotFromDefault(kw, g) ==
    IF "choices" \in DOMAIN kw /\ Len(kw.choices) > 0 /\ "type" \notin DOMAIN kw
    THEN "type" \in DOMAIN g /\ g.type = TypeOf(kw.choices[1])
    ELSE /\ "type" \in DOMAIN g <=> "type" \in DOMAIN kw
         /\ "type" \in DOMAIN kw => g.type = kw.type

\* C24 as stated: guessing sets the type of a spec to the type of its
\* default exactly when the rule of the boolean default did not fire, the
\* default is not None, no type is supplied and the action, "store" when
\* none is given, is "store" or "append"; so a boolean default with a
\* supplied action "store" gets the type bool.
C24_TypeUnlessBoolRuleFired ==
    PastReconciliation =>
        \A k \in DOMAIN last.command_args :
            IF /\ ~BoolRuleFires(last.command_args[k])
               /\ Get(last.command_args[k], "default") # None
               /\ Get(last.command_args[k], "type") = None
               /\ ImpliedAction(last.command_args[k]) \in {"store", "append"}
            THEN /\ "type" \in DOMAIN last.guessed[k]
                 /\ last.guessed[k].type = TypeOf(last.command_args[k].default)
            ELSE TypeNotFromDefault(last.command_args[k], last.guessed[k])

\* C24 amended: guessing sets the type of a spec to the type of its default
\* exactly when the default is not None and not a boolean, the spec has no
\* type or the type None, and the action, "store" when the spec has no
\* action key, is "store" or "append"; a boolean default never gives a
\* type, whether or not an action is supplied.
C24_TypeOfNonBoolDefault ==
    PastReconciliation =>
        \A k \in DOMAIN last.command_args :
            IF /\ Get(last.command_args[k], "default") # None
               /\ ~IsBool(last.command_args[k].default)
               /\ Get(last.command_args[k], "type") = None
               /\ ImpliedAction(last.command_args[k]) \in {"store", "append"}
            THEN /\ "type" \in DOMAIN last.guessed[k]
                 /\ last.guessed[k].type = TypeOf(last.command_args[k].default)
            ELSE TypeNotFromDefault(last.command_args[k], last.guessed[k])

\* a spec with a boolean default and the supplied action "store" went
\* through guessing and got no type
C24_Witness ==
    /\ PastReconciliation
    /\ \E k \in DOMAIN last.command_args :
          /\ "default" \in DOMAIN last.command_args[k]
          /\ IsBool(last.command_args[k].default)
          /\ "action" \in DOMAIN last.command_args[k]
          /\ last.command_args[k].action = "store"
          /\ "type" \notin DOMAIN last.guessed[k]

----------------------------------------------------------------------------
(* C25 *)

\* the rule that guesses the type from the default fires for kw
DefaultTypeRuleFires(kw) ==
    /\ Get(kw, "default") # None
    /\ ~IsBool(kw.default)
    /\ Get(kw, "type") = None
    /\ ImpliedAction(kw) \in TYPE_AWARE_ACTIONS

\* kw has choices, and they are not empty
HasChoices(kw) == "choices" \in DOMAIN kw /\ Len(kw.choices) > 0

\* guessing left the field of kw as it was: absent, or with its value
Untouched(kw, g, field) ==
    /\ field \in DOMAIN g <=> field \in DOMAIN kw
    /\ field \in DOMAIN kw => g[field] = kw[field]

\* C25 as stated: at most one rule of guessing fires for a spec; the type
\* is taken from the first choice only when the choices are not empty, no
\* type is supplied and neither the rule of the boolean default nor the
\* rule of the type of the default fired; so a spec with a boolean default,
\* no action and choices gets its action guessed and no type.
C25_AtMostOneRule ==
    PastReconciliation =>
        \A k \in DOMAIN last.command_args :
            LET kw == last.command_args[k]
                g == last.guessed[k]
            IN  /\ BoolRuleFires(kw) =>
                      /\ g.action = Toggle(kw.default)
                      /\ Untouched(kw, g, "type")
                /\ DefaultTypeRuleFires(kw) =>
                      /\ g.type = TypeOf(kw.default)
                      /\ Untouched(kw, g, "action")
                /\ (~BoolRuleFires(kw) /\ ~DefaultTypeRuleFires(kw)) =>
                      /\ Untouched(kw, g, "action")
                      /\ IF HasChoices(kw) /\ "type" \notin DOMAIN kw
                         THEN "type" \in DOMAIN g /\ g.type = TypeOf(kw.choices[1])
                         ELSE Untouched(kw, g, "type")

\* C25 amended: the rule of the choices is apart from the rule of the
\* boolean default: the type is taken from the first choice exactly when
\* the choices are not empty, the spec has no type key and the rule of the
\* type of the default did not fire; the action is guessed exactly when
\* the rule of the boolean default fires; so a spec with a boolean default,
\* no action and choices gets both its action and its type guessed.
C25_ChoicesRuleApart ==
    PastReconciliation =>
        \A k \in DOMAIN last.command_args :
            LET kw == last.command_args[k]
                g == last.guessed[k]
            IN  /\ IF BoolRuleFires(kw)
                   THEN g.action = Toggle(kw.default)
                   ELSE Untouched(kw, g, "action")
                /\ IF DefaultTypeRuleFires(kw)
                   THEN g.type = TypeOf(kw.default)
                   ELSE IF HasChoices(kw) /\ "type" \notin DOMAIN kw
                   THEN "type" \in DOMAIN g /\ g.type = TypeOf(kw.choices[1])
                   ELSE Untouched(kw, g, "type")

\* a spec with a boolean default, no action and choices went through
\* guessing and got both an action and a type
C25_Witness ==
    /\ PastReconciliation
    /\ \E k \in DOMAIN last.command_args :
          /\ BoolRuleFires(last.command_args[k])
          /\ HasChoices(last.command_args[k])
          /\ "type" \notin DOMAIN last.command_args[k]
          /\ "action" \in DOMAIN last.guessed[k]
          /\ "type" \in DOMAIN last.guessed[k]

----------------------------------------------------------------------------
(* C26 *)

\* C26: when add_commands raises ValueError because group-level
\* configuration came without a group name, every parser of the tree is
\* as it was before the call, the parser of the call included: it has got
\* no subparsers action and no command.
C26_RefusalLeavesParser ==
    (CommandsAdded /\ last.error.type = "ValueError"
        /\ last.error.template = GroupKwargsTemplate) =>
            parsers = last.tree_before

----------------------------------------------------------------------------
(* C27 *)

\* C27: after any call of set_default_command, raising or not, the
\* declarations attached to the function are those it bore before the
\* call, each with the same fields and values.
C27_DeclarationsReadOnly ==
    Assembled =>
        /\ last.declared_after = last.declared_before
        /\ AttrArgs(last.function) = last.declared_before

====
